---- MODULE Spec2Model ----
(***************************************************************************)
(* Round/session state machine, controller election, vote aggregation and  *)
(* auto-run scheduling of the stage-operator console (src/src/Stage.jsx).  *)
(*                                                                         *)
(* The shared store holds four records: director, session, world and the   *)
(* vote ledger.  Every store operation (get, set, update, remove) is one   *)
(* atomic step; the synchronous code of a handler between two awaited      *)
(* store operations runs in the step of the operation that follows it, and *)
(* a handler's first store operation runs in the step that invokes it.     *)
(* Change notifications reach an instance's local copies (the React state  *)
(* session and director) in separate steps, at any later moment.           *)
(* Time is in seconds; the updatedAt and ts stamps are not modelled.       *)
(***************************************************************************)
EXTENDS Integers, Sequences, FiniteSets, Bags, TLC

\* ---------------------------------------------------------------- constants
ACTIVE_SECONDS == 20
LOCKED_SECONDS == 6
WAIT_SECONDS == 8

\* ------------------------------------------------------------------- bounds
\* Stage-operator instances (consoles).
Stages == {"s1", "s2"}
\* Highest round id a startRound may produce.
MaxRound == 2
\* Handlers one instance may have in flight at the same time.
MaxTasks == 2
\* Operator clicks in one run.
MaxOps == 2
\* The clock stops here.
MaxTime == 34
\* Longest ledger the aggregator is run on.
MaxVotes == 3

Rounds == 1..MaxRound

\* The paths votes/N: one per round id, and votes/0.
LedgerIds == 0..MaxRound

VARIABLES
  now,          \* Date.now(), in seconds
  director,     \* store record "director" (no fields: absent)
  session,      \* store record "session"
  world,        \* store record "world"
  votes,        \* store subtree "votes": round id -> sequence of entries
  mounted,      \* stage instance -> it has booted
  vsession,     \* stage instance -> its React state `session`
  vdirector,    \* stage instance -> its React state `director`
  timers,       \* stage instance -> bag of its pending setTimeout timers
  tasks,        \* stage instance -> bag of its handlers suspended at an await
  ops,          \* operator clicks so far
  worldWrites,  \* history: round id -> aggregator writes of World since the last restart
  halted,       \* history: a freeze/blackout completed, no resume/restart invoked since
  interrupted,  \* history: rounds whose held lock timer a freeze/blackout cancelled
  aud           \* the audience device: its React state and its sendVote calls in flight

vars == <<now, director, session, world, votes, mounted, vsession, vdirector,
          timers, tasks, ops, worldWrites, halted, interrupted, aud>>

\* ------------------------------------------------------------ store records
Absent == [k \in {} |-> 0]

Exists(r) == DOMAIN r # {}

\* r.k, or d when the field is missing (JavaScript: r.k || d for a falsy d).
Fld(r, k, d) == IF k \in DOMAIN r THEN r[k] ELSE d

\* update(ref, u): the fields of u replace or extend those of r.
Merge(r, u) ==
  [k \in (DOMAIN r) \cup (DOMAIN u) |-> IF k \in DOMAIN u THEN u[k] ELSE r[k]]

Max(a, b) == IF a >= b THEN a ELSE b

Min(a, b) == IF a <= b THEN a ELSE b

\* clamp without its upper limit.
clampNoUpper(n, min, max) == Max(min, n)

clamp(n, min, max) == Max(min, Min(max, n))

SessionDefault ==
  [state |-> "waiting", roundId |-> 0, endsAt |-> 0, nextStartsAt |-> 0,
   controllerId |-> ""]

DirectorDefault == [mode |-> "normal", autoRun |-> FALSE]

WorldDefault == [stability |-> 70, dominant |-> "stable", roundId |-> 0]

\* snap.val() || defaults, as the session listener stores it.
SessionSnap == IF Exists(session) THEN session ELSE SessionDefault

\* The director listener normalises what it receives.
DirectorSnap ==
  IF Exists(director)
  THEN [mode |-> Fld(director, "mode", "normal"),
        autoRun |-> Fld(director, "autoRun", FALSE)]
  ELSE DirectorDefault

\* --------------------------------------------------------------- aggregator
\* Number(entry.power || 1)
PowerOf(e) == IF e.power = 0 THEN 1 ELSE e.power

\* A tally that stops at the first entry of another type.
RECURSIVE SumTypeRun(_, _)
SumTypeRun(data, type) ==
  IF data = <<>> THEN 0
  ELSE IF Head(data).type = type
       THEN PowerOf(Head(data)) + SumTypeRun(Tail(data), type)
       ELSE 0

RECURSIVE SumType(_, _)
SumType(data, type) ==
  IF data = <<>> THEN 0
  ELSE (IF Head(data).type = type THEN PowerOf(Head(data)) ELSE 0)
       + SumType(Tail(data), type)

\* The tally loop of the lock-timer callback over the snapshot `data`.
Tally(data) ==
  [stable |-> SumType(data, "stable"),
   glitch |-> SumType(data, "glitch"),
   override |-> SumType(data, "override")]

\* dominantFromScores with override tested before glitch.
dominantOverrideFirst(sc) ==
  LET max == Max(sc.stable, Max(sc.glitch, sc.override))
  IN IF sc.override = max THEN "override"
     ELSE IF sc.glitch = max THEN "glitch"
     ELSE "stable"

dominantFromScores(sc) ==
  LET max == Max(sc.stable, Max(sc.glitch, sc.override))
  IN IF sc.glitch = max THEN "glitch"
     ELSE IF sc.override = max THEN "override"
     ELSE "stable"

\* calcDelta with the glitch and override weights exchanged.
calcDeltaSwapped(sc) == sc.stable * 1 + sc.glitch * (-3) + sc.override * (-2)

calcDelta(sc) == sc.stable * 1 + sc.glitch * (-2) + sc.override * (-3)

\* The World record the lock-timer callback writes for `round`, from the
\* ledger snapshot `data` and the stability `current` it read.
AggregatedWorld(round, data, current) ==
  LET sc == Tally(data)
      delta == calcDelta(sc)
  IN [stability |-> clamp(current + delta, 0, 100),
      dominant |-> dominantFromScores(sc),
      roundId |-> round,
      lastDelta |-> delta,
      lastScores |-> sc]

\* ------------------------------------------------------------------- timers
\* A timer: [kind, round, due, held, stale].  round is the round id its
\* callback closes over; held says that timersRef.current still holds its
\* handle; stale (history) says that it survived a clearTimers().
Timer(kind, round, due) ==
  [kind |-> kind, round |-> round, due |-> due, held |-> TRUE, stale |-> FALSE]

Copies(T, t) == IF t \in DOMAIN T THEN T[t] ELSE 0

\* clearTimers(): clearTimeout on the three handles, then forget them.  The
\* timers whose handle was overwritten before stay pending.
clearTimers(T) ==
  LET left == {x \in DOMAIN T : ~x.held}
  IN [u \in {[x EXCEPT !.stale = TRUE] : x \in left} |->
        Copies(T, u) + Copies(T, [u EXCEPT !.stale = FALSE])]

\* timersRef.current.<kind> = setTimeout(...): the handle of an earlier timer
\* of that kind is overwritten, the earlier timer stays pending.
SetTimer(T, kind, round, due) ==
  LET old == {t \in DOMAIN T : t.kind = kind /\ t.held}
      keep == [t \in (DOMAIN T) \ old |-> T[t]]
      lost == [u \in {[t EXCEPT !.held = FALSE] : t \in old} |->
                 T[[u EXCEPT !.held = TRUE]]]
  IN (keep (+) lost) (+) SetToBag({Timer(kind, round, due)})

\* -------------------------------------------------------------------- tasks
\* A handler suspended at an await: op is the handler, pc the store operation
\* it performs next, round/str/flag the values its closure captured, data and
\* current the locals of the lock-timer callback.
Task(op, pc, round, str, flag) ==
  [op |-> op, pc |-> pc, round |-> round, str |-> str, flag |-> flag,
   data |-> <<>>, current |-> 0]

TasksOf(s) == BagToSet(tasks[s])

CanSpawn(s) == BagCardinality(tasks[s]) < MaxTasks

Spawn(s, t) == tasks' = [tasks EXCEPT ![s] = @ (+) SetToBag({t})]

Continue(s, t, t2) ==
  tasks' = [tasks EXCEPT ![s] = (@ (-) SetToBag({t})) (+) SetToBag({t2})]

Finish(s, t) == tasks' = [tasks EXCEPT ![s] = @ (-) SetToBag({t})]

InFlight(op) == \E s \in Stages : \E t \in TasksOf(s) : t.op = op

\* ---------------------------------------------------------- controller claim
iAmController(s, vs) ==
  Fld(vs, "controllerId", "") = s \/ Fld(vs, "controllerId", "") = ""

\* ------------------------------------------------------- auto-run scheduler
\* The dependency list of the scheduler effect.
Deps(vs, vd) ==
  <<vd.autoRun, vd.mode, Fld(vs, "state", "undefined"),
    Fld(vs, "nextStartsAt", -1), Fld(vs, "controllerId", "undefined")>>

AutoRunEffectKeeping(s, vs, vd) ==
  LET cleared == timers[s]
      seen == Fld(vs, "nextStartsAt", 0)
      needNew == seen = 0 \/ seen <= now
      nextStartsAt == IF needNew THEN now + WAIT_SECONDS ELSE seen
      delay == Max(0, nextStartsAt - now)
  IN IF ~vd.autoRun \/ vd.mode # "normal" \/ ~iAmController(s, vs)
        \/ Fld(vs, "state", "undefined") # "waiting"
     THEN [timers |-> cleared, session |-> session]
     ELSE [timers |-> SetTimer(cleared, "autoStart", Fld(vs, "roundId", 0),
                               now + delay),
           session |-> IF needNew
                       THEN Merge(session, [nextStartsAt |-> nextStartsAt,
                                            endsAt |-> 0])
                       ELSE session]

\* The effect with clearTimeout on the auto-start handle only.
AutoRunEffectAutoOnly(s, vs, vd) ==
  LET T == timers[s]
      cleared == [t \in {x \in DOMAIN T : ~(x.held /\ x.kind = "autoStart")}
                    |-> T[t]]
      seen == Fld(vs, "nextStartsAt", 0)
      needNew == seen = 0 \/ seen <= now
      nextStartsAt == IF needNew THEN now + WAIT_SECONDS ELSE seen
      delay == Max(0, nextStartsAt - now)
  IN IF ~vd.autoRun \/ vd.mode # "normal" \/ ~iAmController(s, vs)
        \/ Fld(vs, "state", "undefined") # "waiting"
     THEN [timers |-> cleared, session |-> session]
     ELSE [timers |-> SetTimer(cleared, "autoStart", Fld(vs, "roundId", 0),
                               now + delay),
           session |-> IF needNew
                       THEN Merge(session, [nextStartsAt |-> nextStartsAt,
                                            endsAt |-> 0])
                       ELSE session]

AutoRunEffectUnsetOnly(s, vs, vd) ==
  LET cleared == clearTimers(timers[s])
      seen == Fld(vs, "nextStartsAt", 0)
      needNew == seen = 0
      nextStartsAt == IF needNew THEN now + WAIT_SECONDS ELSE seen
      delay == Max(0, nextStartsAt - now)
  IN IF ~vd.autoRun \/ vd.mode # "normal" \/ ~iAmController(s, vs)
        \/ Fld(vs, "state", "undefined") # "waiting"
     THEN [timers |-> cleared, session |-> session]
     ELSE [timers |-> SetTimer(cleared, "autoStart", Fld(vs, "roundId", 0),
                               now + delay),
           session |-> IF needNew
                       THEN Merge(session, [nextStartsAt |-> nextStartsAt,
                                            endsAt |-> 0])
                       ELSE session]

\* One run of the scheduler effect with the rendered values vs, vd: the
\* instance's timers and the stored session afterwards.  The auto-start
\* callback closes over the render's session, hence over its roundId.
AutoRunEffect(s, vs, vd) ==
  LET cleared == clearTimers(timers[s])
      seen == Fld(vs, "nextStartsAt", 0)
      needNew == seen = 0 \/ seen <= now
      nextStartsAt == IF needNew THEN now + WAIT_SECONDS ELSE seen
      delay == Max(0, nextStartsAt - now)
  IN IF ~vd.autoRun \/ vd.mode # "normal" \/ ~iAmController(s, vs)
        \/ Fld(vs, "state", "undefined") # "waiting"
     THEN [timers |-> cleared, session |-> session]
     ELSE [timers |-> SetTimer(cleared, "autoStart", Fld(vs, "roundId", 0),
                               now + delay),
           session |-> IF needNew
                       THEN Merge(session, [nextStartsAt |-> nextStartsAt,
                                            endsAt |-> 0])
                       ELSE session]

\* A render with new values: the effect runs when a dependency changed.
Rerender(s, vs, vd) ==
  IF Deps(vs, vd) # Deps(vsession[s], vdirector[s])
  THEN LET e == AutoRunEffect(s, vs, vd)
       IN /\ timers' = [timers EXCEPT ![s] = e.timers]
          /\ session' = e.session
  ELSE UNCHANGED <<timers, session>>

\* ---------------------------------------------------------- audience device
COOLDOWN_MS == 2000

\* Device ids, with the character codes hashToInt walks over.
DeviceIds == {"dev-0001", "dev-0002", "dev-0003"}

CharCodes(deviceId) ==
  <<100, 101, 118, 45, 48, 48, 48>>
    \o (CASE deviceId = "dev-0001" -> <<49>>
          [] deviceId = "dev-0002" -> <<50>>
          [] deviceId = "dev-0003" -> <<51>>)

\* An unsigned 32-bit integer is kept as two 16-bit halves [hi, lo].
\* (h * 31 + code) >>> 0 :
HashStep(h, code) ==
  LET lo == h.lo * 31 + code
  IN [hi |-> (h.hi * 31 + lo \div 65536) % 65536, lo |-> lo % 65536]

RECURSIVE HashFrom(_, _)
HashFrom(h, codes) ==
  IF codes = <<>> THEN h ELSE HashFrom(HashStep(h, Head(codes)), Tail(codes))

hashToInt(str) == HashFrom([hi |-> 0, lo |-> 0], CharCodes(str))

\* h % 3 for h = hi * 65536 + lo.
Mod3(h) == (h.hi * (65536 % 3) + h.lo) % 3

roleFromDeviceId(deviceId) ==
  LET r == Mod3(hashToInt(deviceId))
  IN IF r = 0 THEN "Observer" ELSE IF r = 1 THEN "Glitch" ELSE "Hacker"

AudienceSessionDefault ==
  [state |-> "waiting", roundId |-> 0, endsAt |-> 0, nextStartsAt |-> 0]

\* The stored lastActionTs "0" lies far in the past of Date.now(); on the
\* model's clock, which starts at 0, that is a time one cooldown before 0.
NeverActed == 0 - COOLDOWN_MS \div 1000

\* The Audience component of a device after mount, with empty localStorage.
\* calls holds the sendVote calls awaiting their push; outcome (history) tells
\* whether the latest sendVote call pushed or returned early.
Audience(deviceId) ==
  [deviceId |-> deviceId,
   role |-> roleFromDeviceId(deviceId),
   session |-> AudienceSessionDefault,
   director |-> DirectorDefault,
   lastActionTs |-> NeverActed,
   normalUsedRound |-> 0,
   abilityUsedRound |-> 0,
   calls |-> EmptyBag,
   outcome |-> ""]

\* --------------------------------------------------------------------- Init
NoHistory ==
  /\ ops = 0
  /\ worldWrites = [r \in Rounds |-> 0]
  /\ halted = FALSE
  /\ interrupted = {}

\* A fresh store and no console open.
InitFresh ==
  /\ now = 0
  /\ director = Absent
  /\ session = Absent
  /\ world = Absent
  /\ votes = [r \in LedgerIds |-> <<>>]
  /\ mounted = [s \in Stages |-> FALSE]
  /\ vsession = [s \in Stages |-> SessionDefault]
  /\ vdirector = [s \in Stages |-> DirectorDefault]
  /\ timers = [s \in Stages |-> EmptyBag]
  /\ tasks = [s \in Stages |-> EmptyBag]
  /\ NoHistory
  /\ aud = Audience("dev-0001")

\* The start of a show run: console s1 has booted, claimed the controller
\* role and completed a restart, and has seen the result.  restart keeps
\* autoRun; with autoRun on, the scheduler effect has written nextStartsAt
\* and armed the auto-start timer.
ShowStore(autoRun) ==
  LET s0 == [SessionDefault EXCEPT
               !.controllerId = "s1",
               !.nextStartsAt = IF autoRun THEN WAIT_SECONDS ELSE 0]
  IN /\ now = 0
     /\ director = [mode |-> "normal", autoRun |-> autoRun]
     /\ session = s0
     /\ world = WorldDefault
     /\ votes = [r \in LedgerIds |-> <<>>]
     /\ mounted = [s \in Stages |-> s = "s1"]
     /\ vsession = [s \in Stages |-> IF s = "s1" THEN s0 ELSE SessionDefault]
     /\ vdirector = [s \in Stages |->
                       IF s = "s1" THEN [mode |-> "normal", autoRun |-> autoRun]
                       ELSE DirectorDefault]
     /\ timers = [s \in Stages |->
                    IF s = "s1" /\ autoRun
                    THEN SetToBag({Timer("autoStart", 0, WAIT_SECONDS)})
                    ELSE EmptyBag]
     /\ tasks = [s \in Stages |-> EmptyBag]
     /\ NoHistory

ShowStart(autoRun) == ShowStore(autoRun) /\ aud = Audience("dev-0001")

Init == \E autoRun \in BOOLEAN : ShowStart(autoRun)

\* ------------------------------------------------------------ boot, listeners
MountAlwaysClaims(s) ==
  /\ ~mounted[s]
  /\ mounted' = [mounted EXCEPT ![s] = TRUE]
  /\ Spawn(s, Task("claim", "ccUpdate", 0, "", FALSE))
  /\ UNCHANGED aud
  /\ UNCHANGED <<now, director, session, world, votes, vsession, vdirector,
                 timers, ops, worldWrites, halted, interrupted>>

\* Mounting the Stage component: the controller-claim effect reads
\* session/controllerId; the scheduler effect runs with the initial state
\* (autoRun false) and only clears the timers.
Mount(s) ==
  /\ ~mounted[s]
  /\ mounted' = [mounted EXCEPT ![s] = TRUE]
  /\ IF Fld(session, "controllerId", "") = ""
     THEN Spawn(s, Task("claim", "ccUpdate", 0, "", FALSE))
     ELSE UNCHANGED tasks
  /\ UNCHANGED aud
  /\ UNCHANGED <<now, director, session, world, votes, vsession, vdirector,
                 timers, ops, worldWrites, halted, interrupted>>

ClaimUpdateIfEmpty(s, t) ==
  /\ t.pc = "ccUpdate"
  /\ session' = IF Fld(session, "controllerId", "") = ""
                THEN Merge(session, [controllerId |-> s])
                ELSE session
  /\ Finish(s, t)
  /\ UNCHANGED aud
  /\ UNCHANGED <<now, director, world, votes, mounted, vsession, vdirector,
                 timers, ops, worldWrites, halted, interrupted>>

ClaimUpdate(s, t) ==
  /\ t.pc = "ccUpdate"
  /\ session' = Merge(session, [controllerId |-> s])
  /\ Finish(s, t)
  /\ UNCHANGED aud
  /\ UNCHANGED <<now, director, world, votes, mounted, vsession, vdirector,
                 timers, ops, worldWrites, halted, interrupted>>

ObserveSession(s) ==
  /\ mounted[s]
  /\ vsession[s] # SessionSnap
  /\ vsession' = [vsession EXCEPT ![s] = SessionSnap]
  /\ Rerender(s, SessionSnap, vdirector[s])
  /\ UNCHANGED aud
  /\ UNCHANGED <<now, director, world, votes, mounted, vdirector, tasks, ops,
                 worldWrites, halted, interrupted>>

ObserveDirector(s) ==
  /\ mounted[s]
  /\ vdirector[s] # DirectorSnap
  /\ vdirector' = [vdirector EXCEPT ![s] = DirectorSnap]
  /\ Rerender(s, vsession[s], DirectorSnap)
  /\ UNCHANGED aud
  /\ UNCHANGED <<now, director, world, votes, mounted, vsession, tasks, ops,
                 worldWrites, halted, interrupted>>

\* ---------------------------------------------------------- ensureWorldInit
\* Nothing ever removes world or director, so a get that finds the record
\* finds it at any later moment too: such a get is folded into the step
\* before it.  Where a handler that starts with ensureWorldInit goes after
\* get(world/stability), performed when it is invoked:
BodyPc(op) ==
  CASE op = "startRound" -> "srGetMode"
    [] op = "setAutoRun" -> "arUpdateDirector"
    [] op = "freeze" -> "fzSetDirector"
    [] op = "resume" -> "rsSetDirector"

AfterWorld(op) == IF Exists(director) THEN BodyPc(op) ELSE "ewGetDirector"

EnsureStart(op) ==
  IF "stability" \in DOMAIN world THEN AfterWorld(op) ELSE "ewSetWorld"

EnsureSetWorld(s, t) ==
  /\ t.pc = "ewSetWorld"
  /\ world' = [WorldDefault EXCEPT !.roundId = 0]
  /\ Continue(s, t, [t EXCEPT !.pc = AfterWorld(t.op)])
  /\ UNCHANGED aud
  /\ UNCHANGED <<now, director, session, votes, mounted, vsession, vdirector,
                 timers, ops, worldWrites, halted, interrupted>>

EnsureGetDirector(s, t) ==
  /\ t.pc = "ewGetDirector"
  /\ Continue(s, t, [t EXCEPT !.pc = IF Exists(director) THEN BodyPc(t.op)
                                     ELSE "ewSetDirector"])
  /\ UNCHANGED aud
  /\ UNCHANGED <<now, director, session, world, votes, mounted, vsession,
                 vdirector, timers, ops, worldWrites, halted, interrupted>>

EnsureSetDirector(s, t) ==
  /\ t.pc = "ewSetDirector"
  /\ director' = DirectorDefault
  /\ Continue(s, t, [t EXCEPT !.pc = BodyPc(t.op)])
  /\ UNCHANGED aud
  /\ UNCHANGED <<now, session, world, votes, mounted, vsession, vdirector,
                 timers, ops, worldWrites, halted, interrupted>>

\* --------------------------------------------------------------- startRound
\* The handler closes over the session of the render it was created in:
\* currentRound is that render's roundId.
startRound(s, reason, currentRound) ==
  /\ CanSpawn(s)
  /\ currentRound < MaxRound
  /\ Spawn(s, Task("startRound", EnsureStart("startRound"), currentRound,
                   reason, FALSE))

nextRoundSame(t) == t.round

nextRound(t) == t.round + 1

\* The Manual Start Round button, enabled while the instance shows itself as
\* controller and the director as normal.
StartRoundManual(s) ==
  /\ mounted[s]
  /\ ops < MaxOps
  /\ iAmController(s, vsession[s])
  /\ vdirector[s].mode = "normal"
  /\ startRound(s, "manual", Fld(vsession[s], "roundId", 0))
  /\ ops' = ops + 1
  /\ UNCHANGED aud
  /\ UNCHANGED <<now, director, session, world, votes, mounted, vsession,
                 vdirector, timers, worldWrites, halted, interrupted>>

\* startRound without its director/mode check.
StartGetModeUnchecked(s, t) ==
  /\ t.pc = "srGetMode"
  /\ Continue(s, t, [t EXCEPT !.pc = "srGetCtrl"])
  /\ UNCHANGED aud
  /\ UNCHANGED <<now, director, session, world, votes, mounted, vsession,
                 vdirector, timers, ops, worldWrites, halted, interrupted>>

StartGetMode(s, t) ==
  /\ t.pc = "srGetMode"
  /\ IF Fld(director, "mode", "normal") # "normal"
     THEN Finish(s, t)
     ELSE Continue(s, t, [t EXCEPT !.pc = "srGetCtrl"])
  /\ UNCHANGED aud
  /\ UNCHANGED <<now, director, session, world, votes, mounted, vsession,
                 vdirector, timers, ops, worldWrites, halted, interrupted>>

\* startRound without its session/controllerId check.
StartGetControllerUnchecked(s, t) ==
  /\ t.pc = "srGetCtrl"
  /\ Continue(s, t, [t EXCEPT !.pc = "srRemove"])
  /\ UNCHANGED aud
  /\ UNCHANGED <<now, director, session, world, votes, mounted, vsession,
                 vdirector, timers, ops, worldWrites, halted, interrupted>>

StartGetController(s, t) ==
  /\ t.pc = "srGetCtrl"
  /\ LET ctrl == Fld(session, "controllerId", "")
     IN IF ctrl # "" /\ ctrl # s
        THEN Finish(s, t)
        ELSE Continue(s, t, [t EXCEPT !.pc = "srRemove"])
  /\ UNCHANGED aud
  /\ UNCHANGED <<now, director, session, world, votes, mounted, vsession,
                 vdirector, timers, ops, worldWrites, halted, interrupted>>

StartRemoveVotesSkipped(s, t) ==
  /\ t.pc = "srRemove"
  /\ Continue(s, t, [t EXCEPT !.pc = "srSetSession"])
  /\ UNCHANGED aud
  /\ UNCHANGED <<now, director, session, world, votes, mounted, vsession,
                 vdirector, timers, ops, worldWrites, halted, interrupted>>

StartRemoveVotes(s, t) ==
  /\ t.pc = "srRemove"
  /\ votes' = [votes EXCEPT ![nextRound(t)] = <<>>]
  /\ Continue(s, t, [t EXCEPT !.pc = "srSetSession"])
  /\ UNCHANGED aud
  /\ UNCHANGED <<now, director, session, world, mounted, vsession, vdirector,
                 timers, ops, worldWrites, halted, interrupted>>

StartSetSession(s, t) ==
  /\ t.pc = "srSetSession"
  /\ session' = [state |-> "active", roundId |-> nextRound(t),
                 endsAt |-> now + ACTIVE_SECONDS, nextStartsAt |-> 0,
                 controllerId |-> s, startedBy |-> t.str]
  /\ Continue(s, t, [t EXCEPT !.pc = "srSchedule"])
  /\ UNCHANGED aud
  /\ UNCHANGED <<now, director, world, votes, mounted, vsession, vdirector,
                 timers, ops, worldWrites, halted, interrupted>>

StartSchedule(s, t) ==
  /\ t.pc = "srSchedule"
  /\ timers' = [timers EXCEPT ![s] =
                  SetTimer(@, "lock", nextRound(t), now + ACTIVE_SECONDS)]
  /\ Finish(s, t)
  /\ UNCHANGED aud
  /\ UNCHANGED <<now, director, session, world, votes, mounted, vsession,
                 vdirector, ops, worldWrites, halted, interrupted>>

\* ------------------------------------------------------------ timer callbacks
Due(s, t, kind) ==
  /\ t \in BagToSet(timers[s])
  /\ t.kind = kind
  /\ now >= t.due

Fired(s, t) == timers' = [timers EXCEPT ![s] = @ (-) SetToBag({t})]

\* The auto-start timer: startRoundAuto() of the render that armed it.
FireAutoStart(s, t) ==
  /\ Due(s, t, "autoStart")
  /\ Fired(s, t)
  /\ startRound(s, "auto", t.round)
  /\ UNCHANGED aud
  /\ UNCHANGED <<now, director, session, world, votes, mounted, vsession,
                 vdirector, ops, worldWrites, halted, interrupted>>

\* The lock timer: get(votes/nextRound).
FireLock(s, t) ==
  /\ Due(s, t, "lock")
  /\ CanSpawn(s)
  /\ Fired(s, t)
  /\ Spawn(s, [Task("lock", "lkGetWorld", t.round, "", FALSE)
                 EXCEPT !.data = votes[t.round]])
  /\ UNCHANGED aud
  /\ UNCHANGED <<now, director, session, world, votes, mounted, vsession,
                 vdirector, ops, worldWrites, halted, interrupted>>

\* The tally, dominant and delta, then get(world/stability).
LockGetWorld(s, t) ==
  /\ t.pc = "lkGetWorld"
  /\ Continue(s, t, [t EXCEPT !.pc = "lkSetWorld",
                              !.current = Fld(world, "stability", 70)])
  /\ UNCHANGED aud
  /\ UNCHANGED <<now, director, session, world, votes, mounted, vsession,
                 vdirector, timers, ops, worldWrites, halted, interrupted>>

LockSetWorld(s, t) ==
  /\ t.pc = "lkSetWorld"
  /\ world' = AggregatedWorld(t.round, t.data, t.current)
  /\ worldWrites' = [worldWrites EXCEPT ![t.round] = Min(@ + 1, 2)]
  /\ Continue(s, t, [t EXCEPT !.pc = "lkSetSession"])
  /\ UNCHANGED aud
  /\ UNCHANGED <<now, director, session, votes, mounted, vsession, vdirector,
                 timers, ops, halted, interrupted>>

LockSetSessionIfController(s, t) ==
  /\ t.pc = "lkSetSession"
  /\ IF Fld(session, "controllerId", "") \in {"", s}
     THEN /\ session' = [state |-> "locked", roundId |-> t.round,
                         endsAt |-> now + LOCKED_SECONDS, nextStartsAt |-> 0,
                         controllerId |-> s]
          /\ Continue(s, t, [t EXCEPT !.pc = "lkSchedule"])
     ELSE /\ session' = session
          /\ Finish(s, t)
  /\ UNCHANGED aud
  /\ UNCHANGED <<now, director, world, votes, mounted, vsession, vdirector,
                 timers, ops, worldWrites, halted, interrupted>>

LockSetSession(s, t) ==
  /\ t.pc = "lkSetSession"
  /\ session' = [state |-> "locked", roundId |-> t.round,
                 endsAt |-> now + LOCKED_SECONDS, nextStartsAt |-> 0,
                 controllerId |-> s]
  /\ Continue(s, t, [t EXCEPT !.pc = "lkSchedule"])
  /\ UNCHANGED aud
  /\ UNCHANGED <<now, director, world, votes, mounted, vsession, vdirector,
                 timers, ops, worldWrites, halted, interrupted>>

LockScheduleNothing(s, t) ==
  /\ t.pc = "lkSchedule"
  /\ Finish(s, t)
  /\ UNCHANGED aud
  /\ UNCHANGED <<now, director, session, world, votes, mounted, vsession,
                 vdirector, timers, ops, worldWrites, halted, interrupted>>

LockSchedule(s, t) ==
  /\ t.pc = "lkSchedule"
  /\ timers' = [timers EXCEPT ![s] =
                  SetTimer(@, "unlock", t.round, now + LOCKED_SECONDS)]
  /\ Finish(s, t)
  /\ UNCHANGED aud
  /\ UNCHANGED <<now, director, session, world, votes, mounted, vsession,
                 vdirector, ops, worldWrites, halted, interrupted>>

FireUnlockKeepingEnd(s, t) ==
  /\ Due(s, t, "unlock")
  /\ Fired(s, t)
  /\ session' = Merge(session, [state |-> "waiting", roundId |-> t.round,
                                nextStartsAt |-> 0, controllerId |-> s])
  /\ UNCHANGED aud
  /\ UNCHANGED <<now, director, world, votes, mounted, vsession, vdirector,
                 tasks, ops, worldWrites, halted, interrupted>>

\* The unlock timer.
FireUnlock(s, t) ==
  /\ Due(s, t, "unlock")
  /\ Fired(s, t)
  /\ session' = [state |-> "waiting", roundId |-> t.round, endsAt |-> 0,
                 nextStartsAt |-> 0, controllerId |-> s]
  /\ UNCHANGED aud
  /\ UNCHANGED <<now, director, world, votes, mounted, vsession, vdirector,
                 tasks, ops, worldWrites, halted, interrupted>>

\* --------------------------------------------------------- director controls
\* The Auto-run button: setAutoRun(!director.autoRun).
setAutoRun(s) ==
  /\ mounted[s]
  /\ ops < MaxOps
  /\ CanSpawn(s)
  /\ Spawn(s, Task("setAutoRun", EnsureStart("setAutoRun"), 0, "",
                   ~vdirector[s].autoRun))
  /\ ops' = ops + 1
  /\ UNCHANGED aud
  /\ UNCHANGED <<now, director, session, world, votes, mounted, vsession,
                 vdirector, timers, worldWrites, halted, interrupted>>

AutoRunUpdateDirector(s, t) ==
  /\ t.pc = "arUpdateDirector"
  /\ director' = Merge(director, [autoRun |-> t.flag])
  /\ IF t.flag
     THEN Continue(s, t, [t EXCEPT !.pc = "arUpdateSession"])
     ELSE Finish(s, t)
  /\ UNCHANGED aud
  /\ UNCHANGED <<now, session, world, votes, mounted, vsession, vdirector,
                 timers, ops, worldWrites, halted, interrupted>>

AutoRunUpdateSessionReset(s, t) ==
  /\ t.pc = "arUpdateSession"
  /\ session' = Merge(session, [state |-> "waiting", nextStartsAt |-> 0])
  /\ Finish(s, t)
  /\ UNCHANGED aud
  /\ UNCHANGED <<now, director, world, votes, mounted, vsession, vdirector,
                 timers, ops, worldWrites, halted, interrupted>>

AutoRunUpdateSession(s, t) ==
  /\ t.pc = "arUpdateSession"
  /\ session' = Merge(session, [state |-> "waiting"])
  /\ Finish(s, t)
  /\ UNCHANGED aud
  /\ UNCHANGED <<now, director, world, votes, mounted, vsession, vdirector,
                 timers, ops, worldWrites, halted, interrupted>>

\* The held lock timers of the round the store shows as active.
HeldLockRounds(s) ==
  {t.round : t \in {x \in BagToSet(timers[s]) :
                      /\ x.kind = "lock"
                      /\ x.held
                      /\ Fld(session, "state", "undefined") = "active"
                      /\ x.round = Fld(session, "roundId", 0)}}

\* freeze and blackout differ in the mode they write; both close over the
\* director of the render they were created in ({...director, mode}). The
\* task remembers the active round whose lock timer was held at invocation.
Halt(s, mode) ==
  /\ mounted[s]
  /\ ops < MaxOps
  /\ CanSpawn(s)
  /\ Spawn(s, Task("freeze", EnsureStart("freeze"),
                   IF HeldLockRounds(s) = {} THEN 0 ELSE Fld(session, "roundId", 0),
                   mode, vdirector[s].autoRun))
  /\ ops' = ops + 1
  /\ UNCHANGED aud
  /\ UNCHANGED <<now, director, session, world, votes, mounted, vsession,
                 vdirector, timers, worldWrites, halted, interrupted>>

freeze(s) == Halt(s, "freeze")

blackout(s) == Halt(s, "blackout")

\* clearTimers(), then set(director, {...director, mode}).
FreezeSetDirector(s, t) ==
  /\ t.pc = "fzSetDirector"
  /\ timers' = [timers EXCEPT ![s] = clearTimers(@)]
  /\ director' = [mode |-> t.str, autoRun |-> t.flag]
  /\ interrupted' = interrupted \cup (HeldLockRounds(s) \cap {t.round})
  /\ Continue(s, t, [t EXCEPT !.pc = "fzUpdateSession"])
  /\ UNCHANGED aud
  /\ UNCHANGED <<now, session, world, votes, mounted, vsession, vdirector,
                 ops, worldWrites, halted>>

FreezeUpdateSessionAnonymous(s, t) ==
  /\ t.pc = "fzUpdateSession"
  /\ session' = Merge(session, [state |-> "frozen", endsAt |-> 0,
                                nextStartsAt |-> 0])
  /\ halted' = (~InFlight("resume") /\ ~InFlight("restart"))
  /\ Finish(s, t)
  /\ UNCHANGED aud
  /\ UNCHANGED <<now, director, world, votes, mounted, vsession, vdirector,
                 timers, ops, worldWrites, interrupted>>

FreezeUpdateSession(s, t) ==
  /\ t.pc = "fzUpdateSession"
  /\ session' = Merge(session, [state |-> "frozen", endsAt |-> 0,
                                nextStartsAt |-> 0, controllerId |-> s])
  /\ halted' = (~InFlight("resume") /\ ~InFlight("restart"))
  /\ Finish(s, t)
  /\ UNCHANGED aud
  /\ UNCHANGED <<now, director, world, votes, mounted, vsession, vdirector,
                 timers, ops, worldWrites, interrupted>>

resume(s) ==
  /\ mounted[s]
  /\ ops < MaxOps
  /\ CanSpawn(s)
  /\ Spawn(s, Task("resume", EnsureStart("resume"), 0, "",
                   vdirector[s].autoRun))
  /\ ops' = ops + 1
  /\ halted' = FALSE
  /\ UNCHANGED aud
  /\ UNCHANGED <<now, director, session, world, votes, mounted, vsession,
                 vdirector, timers, worldWrites, interrupted>>

ResumeSetDirector(s, t) ==
  /\ t.pc = "rsSetDirector"
  /\ director' = [mode |-> "normal", autoRun |-> t.flag]
  /\ Continue(s, t, [t EXCEPT !.pc = "rsUpdateSession"])
  /\ UNCHANGED aud
  /\ UNCHANGED <<now, session, world, votes, mounted, vsession, vdirector,
                 timers, ops, worldWrites, halted, interrupted>>

ResumeUpdateSession(s, t) ==
  /\ t.pc = "rsUpdateSession"
  /\ session' = Merge(session, [state |-> "waiting", endsAt |-> 0,
                                nextStartsAt |-> 0, controllerId |-> s])
  /\ Finish(s, t)
  /\ UNCHANGED aud
  /\ UNCHANGED <<now, director, world, votes, mounted, vsession, vdirector,
                 timers, ops, worldWrites, halted, interrupted>>

\* A restart that also reached the devices and cleared their markers.
restartResettingDevices(s) ==
  /\ mounted[s]
  /\ ops < MaxOps
  /\ CanSpawn(s)
  /\ timers' = [timers EXCEPT ![s] = clearTimers(@)]
  /\ votes' = [r \in LedgerIds |-> <<>>]
  /\ Spawn(s, Task("restart", "rtSetWorld", ops + 1, "", vdirector[s].autoRun))
  /\ ops' = ops + 1
  /\ aud' = [aud EXCEPT !.normalUsedRound = 0, !.abilityUsedRound = 0]
  /\ UNCHANGED <<now, director, session, world, mounted, vsession, vdirector,
                 worldWrites, halted, interrupted>>

\* restart: clearTimers() and remove(votes) when invoked, then three sets.
\* The call remembers (history) whether no other handler of the instance was
\* in flight, what the stored autoRun was and how many operator actions had
\* been taken (its round field) when it was invoked.
restart(s) ==
  /\ mounted[s]
  /\ ops < MaxOps
  /\ CanSpawn(s)
  /\ timers' = [timers EXCEPT ![s] = clearTimers(@)]
  /\ votes' = [r \in LedgerIds |-> <<>>]
  /\ Spawn(s, [Task("restart", "rtSetWorld", ops + 1,
                     IF tasks[s] = EmptyBag THEN "alone" ELSE "",
                     vdirector[s].autoRun)
                 EXCEPT !.current = IF Fld(director, "autoRun", FALSE)
                                    THEN 1 ELSE 0])
  /\ ops' = ops + 1
  /\ halted' = FALSE
  /\ interrupted' = {}
  /\ UNCHANGED aud
  /\ UNCHANGED <<now, director, session, world, mounted, vsession, vdirector,
                 worldWrites>>

RestartSetWorld(s, t) ==
  /\ t.pc = "rtSetWorld"
  /\ world' = WorldDefault
  /\ worldWrites' = [r \in Rounds |-> 0]
  /\ Continue(s, t, [t EXCEPT !.pc = "rtSetDirector"])
  /\ UNCHANGED aud
  /\ UNCHANGED <<now, director, session, votes, mounted, vsession, vdirector,
                 timers, ops, halted, interrupted>>

RestartSetDirector(s, t) ==
  /\ t.pc = "rtSetDirector"
  /\ director' = [mode |-> "normal", autoRun |-> t.flag]
  /\ Continue(s, t, [t EXCEPT !.pc = "rtSetSession"])
  /\ UNCHANGED aud
  /\ UNCHANGED <<now, session, world, votes, mounted, vsession, vdirector,
                 timers, ops, worldWrites, halted, interrupted>>

RestartSetSession(s, t) ==
  /\ t.pc = "rtSetSession"
  /\ session' = [state |-> "waiting", roundId |-> 0, endsAt |-> 0,
                 nextStartsAt |-> 0, controllerId |-> s]
  /\ Finish(s, t)
  /\ UNCHANGED aud
  /\ UNCHANGED <<now, director, world, votes, mounted, vsession, vdirector,
                 timers, ops, worldWrites, halted, interrupted>>

RoundIdStored == Fld(session, "roundId", 0)

resetCurrentVotesStored(s) ==
  /\ mounted[s]
  /\ ops < MaxOps
  /\ votes' = IF RoundIdStored = 0 THEN votes
              ELSE [votes EXCEPT ![RoundIdStored] = <<>>]
  /\ ops' = ops + 1
  /\ UNCHANGED aud
  /\ UNCHANGED <<now, director, session, world, mounted, vsession, vdirector,
                 timers, tasks, worldWrites, halted, interrupted>>

resetCurrentVotes(s) ==
  /\ mounted[s]
  /\ ops < MaxOps
  /\ votes' = IF Fld(vsession[s], "roundId", 0) = 0 THEN votes
              ELSE [votes EXCEPT ![Fld(vsession[s], "roundId", 0)] = <<>>]
  /\ ops' = ops + 1
  /\ UNCHANGED aud
  /\ UNCHANGED <<now, director, session, world, mounted, vsession, vdirector,
                 timers, tasks, worldWrites, halted, interrupted>>

\* ----------------------------------------------------------- audience votes
MaxCalls == 2
MaxSent == 2

RECURSIVE SumLen(_)
SumLen(ids) ==
  IF ids = {} THEN 0
  ELSE LET n == CHOOSE x \in ids : TRUE
       IN Len(votes[n]) + SumLen(ids \ {n})

Ms(seconds) == seconds * 1000

CeilDiv(a, b) == 0 - ((0 - a) \div b)

secondsLeft ==
  Max(0, CeilDiv(Ms(Fld(aud.session, "endsAt", 0)) - Ms(now), 1000))

cooldownLeft ==
  Max(0, CeilDiv(COOLDOWN_MS - (Ms(now) - Ms(aud.lastActionTs)), 1000))

modeBlocksInput ==
  aud.director.mode # "normal" \/ Fld(aud.session, "state", "") = "frozen"

isActiveAnyMode ==
  /\ Fld(aud.session, "state", "") = "active"
  /\ Fld(aud.session, "roundId", 0) > 0
  /\ secondsLeft > 0

isActive ==
  /\ ~modeBlocksInput
  /\ Fld(aud.session, "state", "") = "active"
  /\ Fld(aud.session, "roundId", 0) > 0
  /\ secondsLeft > 0

usedRoundShared(kind) == Max(aud.normalUsedRound, aud.abilityUsedRound)

\* The marker sendVote compares with session.roundId for a vote of this kind.
usedRound(kind) ==
  IF kind = "normal" THEN aud.normalUsedRound ELSE aud.abilityUsedRound

normalAvailable ==
  isActive /\ aud.normalUsedRound # Fld(aud.session, "roundId", 0)
           /\ cooldownLeft = 0

abilityAvailable ==
  isActive /\ aud.abilityUsedRound # Fld(aud.session, "roundId", 0)
           /\ cooldownLeft = 0

\* The device's listeners: the view is the stored value or the default.
AudObserveSession ==
  /\ aud.session # (IF Exists(session) THEN session ELSE AudienceSessionDefault)
  /\ aud' = [aud EXCEPT !.session = IF Exists(session) THEN session
                                    ELSE AudienceSessionDefault]
  /\ UNCHANGED <<now, director, session, world, votes, mounted, vsession,
                 vdirector, timers, tasks, ops, worldWrites, halted,
                 interrupted>>

AudObserveDirector ==
  /\ aud.director # DirectorSnap
  /\ aud' = [aud EXCEPT !.director = DirectorSnap]
  /\ UNCHANGED <<now, director, session, world, votes, mounted, vsession,
                 vdirector, timers, tasks, ops, worldWrites, halted,
                 interrupted>>

\* The number of entries in the Vote Ledger.
Sent == SumLen(LedgerIds)

VoteEntry(type, power, kind) ==
  [type |-> type, power |-> power, kind |-> kind, role |-> aud.role,
   deviceId |-> aud.deviceId]

\* sendVote up to its await: the four early returns, else the push to
\* votes/<session.roundId of the render>.
sendVote(type, power, kind) ==
  LET round == Fld(aud.session, "roundId", 0)
  IN /\ IF \/ ~isActive
           \/ cooldownLeft # 0
           \/ usedRound(kind) = round
        THEN /\ aud' = [aud EXCEPT !.outcome = "rejected"]
             /\ UNCHANGED votes
        ELSE /\ BagCardinality(aud.calls) < MaxCalls
             /\ Sent < MaxSent
             /\ votes' = [votes EXCEPT
                            ![round] = Append(@, VoteEntry(type, power, kind))]
             /\ aud' = [aud EXCEPT
                          !.calls = @ (+) SetToBag({[kind |-> kind,
                                                     round |-> round]}),
                          !.outcome = "sent"]
     /\ UNCHANGED <<now, director, session, world, mounted, vsession,
                    vdirector, timers, tasks, ops, worldWrites, halted,
                    interrupted>>

\* sendVote after its await: the timestamp and the marker of the kind.
SendVoteDone(c) ==
  /\ c \in BagToSet(aud.calls)
  /\ aud' = [aud EXCEPT
               !.calls = @ (-) SetToBag({c}),
               !.lastActionTs = now,
               !.normalUsedRound = IF c.kind = "normal" THEN c.round ELSE @,
               !.abilityUsedRound = IF c.kind = "ability" THEN c.round ELSE @]
  /\ UNCHANGED <<now, director, session, world, votes, mounted, vsession,
                 vdirector, timers, tasks, ops, worldWrites, halted,
                 interrupted>>

voteNormal(type) == sendVote(type, 1, "normal")

abilityTypeOverride(role) == "override"

abilityType(role) ==
  IF role = "Observer" THEN "stable"
  ELSE IF role = "Glitch" THEN "glitch" ELSE "override"

useAbility == sendVote(abilityType(aud.role), 3, "ability")

\* -------------------------------------------------------------------- clock
\* The instants at which something falls due: a pending timer, the stored
\* end of the round, the stored start of the next one, the end of the
\* device's cooldown.
Instants ==
  UNION {{t.due : t \in BagToSet(timers[s])} : s \in Stages}
    \cup {Fld(session, "endsAt", 0), Fld(session, "nextStartsAt", 0)}
    \cup {aud.lastActionTs + COOLDOWN_MS \div 1000}

\* Time passes to the next such instant.
Tick ==
  /\ \E i \in Instants :
       /\ i > now
       /\ i <= MaxTime
       /\ \A j \in Instants : j > now => i <= j
       /\ now' = i
  /\ UNCHANGED aud
  /\ UNCHANGED <<director, session, world, votes, mounted, vsession,
                 vdirector, timers, tasks, ops, worldWrites, halted,
                 interrupted>>

\* ------------------------------------------------------------ specification
\* One show run driven from console s1.
Operator(s) ==
  \/ StartRoundManual(s)
  \/ setAutoRun(s)
  \/ freeze(s)
  \/ blackout(s)
  \/ resume(s)
  \/ restart(s)

Timers(s) == BagToSet(timers[s])

Next ==
  \/ Tick
  \/ ObserveSession("s1")
  \/ ObserveDirector("s1")
  \/ Operator("s1")
  \/ \E t \in Timers("s1") : FireAutoStart("s1", t)
  \/ \E t \in Timers("s1") : FireLock("s1", t)
  \/ \E t \in Timers("s1") : FireUnlock("s1", t)
  \/ \E t \in TasksOf("s1") : StartGetMode("s1", t)
  \/ \E t \in TasksOf("s1") : StartGetController("s1", t)
  \/ \E t \in TasksOf("s1") : StartRemoveVotes("s1", t)
  \/ \E t \in TasksOf("s1") : StartSetSession("s1", t)
  \/ \E t \in TasksOf("s1") : StartSchedule("s1", t)
  \/ \E t \in TasksOf("s1") : LockGetWorld("s1", t)
  \/ \E t \in TasksOf("s1") : LockSetWorld("s1", t)
  \/ \E t \in TasksOf("s1") : LockSetSession("s1", t)
  \/ \E t \in TasksOf("s1") : LockSchedule("s1", t)
  \/ \E t \in TasksOf("s1") : AutoRunUpdateDirector("s1", t)
  \/ \E t \in TasksOf("s1") : AutoRunUpdateSession("s1", t)
  \/ \E t \in TasksOf("s1") : FreezeSetDirector("s1", t)
  \/ \E t \in TasksOf("s1") : FreezeUpdateSession("s1", t)
  \/ \E t \in TasksOf("s1") : ResumeSetDirector("s1", t)
  \/ \E t \in TasksOf("s1") : ResumeUpdateSession("s1", t)
  \/ \E t \in TasksOf("s1") : RestartSetWorld("s1", t)
  \/ \E t \in TasksOf("s1") : RestartSetDirector("s1", t)
  \/ \E t \in TasksOf("s1") : RestartSetSession("s1", t)

Spec == Init /\ [][Next]_vars

\* --------------------------------------------------------- aggregator inputs
Types == {"stable", "glitch", "override"}

RoleOfType(type) ==
  CASE type = "stable" -> "Observer"
    [] type = "glitch" -> "Glitch"
    [] type = "override" -> "Hacker"

\* The entries audience devices push: a normal vote (power 1) of any type, or
\* the ability vote (power 3) of the device's role.  The aggregator reads
\* type and power only; "any" stands for the pushing devices' ids.
VoteInputs ==
  {[type |-> ty, power |-> p, kind |-> IF p = 1 THEN "normal" ELSE "ability",
    role |-> RoleOfType(ty), deviceId |-> "any"] : ty \in Types, p \in {1, 3}}

Ledgers == UNION {[1..n -> VoteInputs] : n \in 0..MaxVotes}

\* Stabilities earlier rounds may have left, at and near both clamps.
StabilityInputs == {0, 5, 70, 96, 100}

StableVote ==
  [type |-> "stable", power |-> 1, kind |-> "normal", role |-> "Observer",
   deviceId |-> "any"]

OverrideAbility ==
  [type |-> "override", power |-> 3, kind |-> "ability", role |-> "Hacker",
   deviceId |-> "any"]

\* A World record with stability st as the lock-timer callback of round 1
\* leaves it.
PriorWorld(st) ==
  IF st >= 1 THEN AggregatedWorld(1, <<StableVote>>, st - 1)
  ELSE AggregatedWorld(1, <<OverrideAbility>>, 0)

\* Round 2 has run for ACTIVE_SECONDS with console s1 as controller: its
\* lock timer is due, the ledger of the round holds any votes, earlier
\* rounds have left any stability.
InitAgg ==
  \E data \in Ledgers, st \in StabilityInputs :
    LET s0 == [state |-> "active", roundId |-> 2, endsAt |-> ACTIVE_SECONDS,
               nextStartsAt |-> 0, controllerId |-> "s1",
               startedBy |-> "manual"]
    IN /\ now = ACTIVE_SECONDS
       /\ director = DirectorDefault
       /\ session = s0
       /\ world = PriorWorld(st)
       /\ votes = [r \in LedgerIds |-> IF r = 2 THEN data ELSE <<>>]
       /\ mounted = [s \in Stages |-> s = "s1"]
       /\ vsession = [s \in Stages |-> IF s = "s1" THEN s0 ELSE SessionDefault]
       /\ vdirector = [s \in Stages |-> DirectorDefault]
       /\ timers = [s \in Stages |->
                      IF s = "s1"
                      THEN SetToBag({Timer("lock", 2, ACTIVE_SECONDS)})
                      ELSE EmptyBag]
       /\ tasks = [s \in Stages |-> EmptyBag]
       /\ NoHistory
       /\ aud = Audience("dev-0001")

NextAgg ==
  \/ Tick
  \/ restart("s1")
  \/ \E t \in Timers("s1") : FireLock("s1", t)
  \/ \E t \in Timers("s1") : FireUnlock("s1", t)
  \/ \E t \in TasksOf("s1") : LockGetWorld("s1", t)
  \/ \E t \in TasksOf("s1") : LockSetWorld("s1", t)
  \/ \E t \in TasksOf("s1") : LockSetSession("s1", t)
  \/ \E t \in TasksOf("s1") : LockSchedule("s1", t)
  \/ \E t \in TasksOf("s1") : RestartSetWorld("s1", t)
  \/ \E t \in TasksOf("s1") : RestartSetDirector("s1", t)
  \/ \E t \in TasksOf("s1") : RestartSetSession("s1", t)

SpecAgg == InitAgg /\ [][NextAgg]_vars

\* --------------------------------------------------- two consoles booting
\* Both consoles have (re)loaded the page on a show that console s1 controls
\* and left in the given mode: their listeners have not delivered yet, so
\* each renders the defaults (mode normal, no controller).
Reloaded(mode) ==
  /\ now = 0
  /\ director = [mode |-> mode, autoRun |-> FALSE]
  /\ session = [SessionDefault EXCEPT
                  !.state = IF mode = "normal" THEN "waiting" ELSE "frozen",
                  !.controllerId = "s1"]
  /\ world = WorldDefault
  /\ votes = [r \in LedgerIds |-> <<>>]
  /\ mounted = [s \in Stages |-> TRUE]
  /\ vsession = [s \in Stages |-> SessionDefault]
  /\ vdirector = [s \in Stages |-> DirectorDefault]
  /\ timers = [s \in Stages |-> EmptyBag]
  /\ tasks = [s \in Stages |-> EmptyBag]
  /\ NoHistory
  /\ aud = Audience("dev-0001")

InitConsoles ==
  \/ InitFresh
  \/ \E mode \in {"normal", "freeze", "blackout"} : Reloaded(mode)

NextConsoles ==
  \/ Tick
  \/ \E s \in Stages : Mount(s)
  \/ \E s \in Stages : ObserveSession(s)
  \/ \E s \in Stages : ObserveDirector(s)
  \/ \E s \in Stages : StartRoundManual(s)
  \/ \E s \in Stages : \E t \in TasksOf(s) : ClaimUpdate(s, t)
  \/ \E s \in Stages : \E t \in TasksOf(s) : EnsureSetWorld(s, t)
  \/ \E s \in Stages : \E t \in TasksOf(s) : EnsureGetDirector(s, t)
  \/ \E s \in Stages : \E t \in TasksOf(s) : EnsureSetDirector(s, t)
  \/ \E s \in Stages : \E t \in TasksOf(s) : StartGetMode(s, t)
  \/ \E s \in Stages : \E t \in TasksOf(s) : StartGetController(s, t)
  \/ \E s \in Stages : \E t \in TasksOf(s) : StartRemoveVotes(s, t)
  \/ \E s \in Stages : \E t \in TasksOf(s) : StartSetSession(s, t)
  \/ \E s \in Stages : \E t \in TasksOf(s) : StartSchedule(s, t)
  \/ \E s \in Stages : \E t \in Timers(s) : FireLock(s, t)
  \/ \E s \in Stages : \E t \in Timers(s) : FireUnlock(s, t)
  \/ \E s \in Stages : \E t \in TasksOf(s) : LockGetWorld(s, t)
  \/ \E s \in Stages : \E t \in TasksOf(s) : LockSetWorld(s, t)
  \/ \E s \in Stages : \E t \in TasksOf(s) : LockSetSession(s, t)
  \/ \E s \in Stages : \E t \in TasksOf(s) : LockSchedule(s, t)

SpecConsoles == InitConsoles /\ [][NextConsoles]_vars

\* ------------------------------------------------- a second operator console
\* Round 1 has just been started from console s1, the controller; console s2
\* is open beside it and both have rendered the store.  The operator of the
\* show now works at console s2.
InitSecond ==
  LET s0 == [state |-> "active", roundId |-> 1, endsAt |-> ACTIVE_SECONDS,
             nextStartsAt |-> 0, controllerId |-> "s1",
             startedBy |-> "manual"]
  IN /\ now = 0
     /\ director = DirectorDefault
     /\ session = s0
     /\ world = WorldDefault
     /\ votes = [r \in LedgerIds |-> <<>>]
     /\ mounted = [s \in Stages |-> TRUE]
     /\ vsession = [s \in Stages |-> s0]
     /\ vdirector = [s \in Stages |-> DirectorDefault]
     /\ timers = [s \in Stages |->
                    IF s = "s1"
                    THEN SetToBag({Timer("lock", 1, ACTIVE_SECONDS)})
                    ELSE EmptyBag]
     /\ tasks = [s \in Stages |-> EmptyBag]
     /\ NoHistory
     /\ aud = Audience("dev-0001")

NextSecond ==
  \/ Tick
  \/ StartRoundManual("s2")
  \/ freeze("s2")
  \/ blackout("s2")
  \/ resume("s2")
  \/ restart("s2")
  \/ \E s \in Stages : ObserveSession(s)
  \/ \E s \in Stages : ObserveDirector(s)
  \/ \E s \in Stages : \E t \in Timers(s) : FireLock(s, t)
  \/ \E s \in Stages : \E t \in Timers(s) : FireUnlock(s, t)
  \/ \E s \in Stages : \E t \in TasksOf(s) : LockGetWorld(s, t)
  \/ \E s \in Stages : \E t \in TasksOf(s) : LockSetWorld(s, t)
  \/ \E s \in Stages : \E t \in TasksOf(s) : LockSetSession(s, t)
  \/ \E s \in Stages : \E t \in TasksOf(s) : LockSchedule(s, t)
  \/ \E t \in TasksOf("s2") : StartGetMode("s2", t)
  \/ \E t \in TasksOf("s2") : StartGetController("s2", t)
  \/ \E t \in TasksOf("s2") : StartRemoveVotes("s2", t)
  \/ \E t \in TasksOf("s2") : StartSetSession("s2", t)
  \/ \E t \in TasksOf("s2") : StartSchedule("s2", t)
  \/ \E t \in TasksOf("s2") : FreezeSetDirector("s2", t)
  \/ \E t \in TasksOf("s2") : FreezeUpdateSession("s2", t)
  \/ \E t \in TasksOf("s2") : ResumeSetDirector("s2", t)
  \/ \E t \in TasksOf("s2") : ResumeUpdateSession("s2", t)
  \/ \E t \in TasksOf("s2") : RestartSetWorld("s2", t)
  \/ \E t \in TasksOf("s2") : RestartSetDirector("s2", t)
  \/ \E t \in TasksOf("s2") : RestartSetSession("s2", t)

SpecSecond == InitSecond /\ [][NextSecond]_vars

\* ---------------------------------------------------- one audience device
\* Round r has just been started by hand from console s1 (startRound has
\* written the session and armed the lock timer: one operator action);
\* earlier rounds were empty.
RoundRunning(r) ==
  LET s0 == [state |-> "active", roundId |-> r, endsAt |-> ACTIVE_SECONDS,
             nextStartsAt |-> 0, controllerId |-> "s1",
             startedBy |-> "manual"]
  IN /\ now = 0
     /\ director = [mode |-> "normal", autoRun |-> FALSE]
     /\ session = s0
     /\ world = IF r = 1 THEN WorldDefault
                ELSE AggregatedWorld(r - 1, <<>>, 70)
     /\ votes = [n \in LedgerIds |-> <<>>]
     /\ mounted = [s \in Stages |-> s = "s1"]
     /\ vsession = [s \in Stages |-> IF s = "s1" THEN s0 ELSE SessionDefault]
     /\ vdirector = [s \in Stages |-> DirectorDefault]
     /\ timers = [s \in Stages |->
                    IF s = "s1"
                    THEN SetToBag({Timer("lock", r, ACTIVE_SECONDS)})
                    ELSE EmptyBag]
     /\ tasks = [s \in Stages |-> EmptyBag]
     /\ ops = 1
     /\ worldWrites = [n \in Rounds |-> 0]
     /\ halted = FALSE
     /\ interrupted = {}

\* One audience device opens the page during round r; its markers are those
\* of the round before (none in round 1), whose ledger has been reset since.
InitAud ==
  \E d \in DeviceIds : \E r \in Rounds :
    /\ RoundRunning(r)
    /\ aud = [Audience(d) EXCEPT !.normalUsedRound = r - 1,
                                 !.abilityUsedRound = r - 1]

\* The round runs to its end on the timers of console s1, which may freeze
\* the show.
NextAud ==
  \/ Tick
  \/ freeze("s1")
  \/ \E t \in Timers("s1") : FireLock("s1", t)
  \/ \E t \in Timers("s1") : FireUnlock("s1", t)
  \/ \E t \in TasksOf("s1") : LockGetWorld("s1", t)
  \/ \E t \in TasksOf("s1") : LockSetWorld("s1", t)
  \/ \E t \in TasksOf("s1") : LockSetSession("s1", t)
  \/ \E t \in TasksOf("s1") : LockSchedule("s1", t)
  \/ \E t \in TasksOf("s1") : FreezeSetDirector("s1", t)
  \/ \E t \in TasksOf("s1") : FreezeUpdateSession("s1", t)
  \/ AudObserveSession
  \/ AudObserveDirector
  \/ \E type \in Types : voteNormal(type)
  \/ useAbility
  \/ \E c \in BagToSet(aud.calls) : SendVoteDone(c)

SpecAud == InitAud /\ [][NextAud]_vars

\* ------------------------------------------------------- the auto-run cycle
\* A waiting period under auto-run, r rounds after the show started, with
\* console s1 the only console: the scheduler effect has written nextStartsAt
\* and armed the auto-start timer; earlier rounds were empty.  (The ledger
\* is set by InitCycle.)
CycleStart(r) ==
  LET s0 == [state |-> "waiting", roundId |-> r, endsAt |-> 0,
             nextStartsAt |-> WAIT_SECONDS, controllerId |-> "s1"]
  IN /\ now = 0
     /\ director = [mode |-> "normal", autoRun |-> TRUE]
     /\ session = s0
     /\ world = IF r = 0 THEN WorldDefault ELSE AggregatedWorld(r, <<>>, 70)
     /\ mounted = [s \in Stages |-> s = "s1"]
     /\ vsession = [s \in Stages |-> IF s = "s1" THEN s0 ELSE SessionDefault]
     /\ vdirector = [s \in Stages |->
                       IF s = "s1" THEN [mode |-> "normal", autoRun |-> TRUE]
                       ELSE DirectorDefault]
     /\ timers = [s \in Stages |->
                    IF s = "s1"
                    THEN SetToBag({Timer("autoStart", r, WAIT_SECONDS)})
                    ELSE EmptyBag]
     /\ tasks = [s \in Stages |-> EmptyBag]
     /\ NoHistory

\* An entry left under the id of a round that has not been played yet (pushed
\* by a device with a stale view after a restart removed the ledger).
OrphanVote ==
  [type |-> "glitch", power |-> 1, kind |-> "normal", role |-> "Glitch",
   deviceId |-> "any"]

InitCycle ==
  \E r \in 0..(MaxRound - 1) : \E d \in DeviceIds : \E orphan \in BOOLEAN :
    /\ CycleStart(r)
    /\ votes = [n \in LedgerIds |->
                 IF orphan /\ n > r THEN <<OrphanVote>> ELSE <<>>]
    /\ aud = Audience(d)

\* The SDK raises the value event of a write on the writing client when the
\* write is issued, and the awaited promise resolves on the server's
\* acknowledgement: the console has rendered what it wrote before its handler
\* resumes.
Synced(s) == vsession[s] = SessionSnap /\ vdirector[s] = DirectorSnap

\* Timers run when they fall due and handlers finish within the instant.
Prompt(s) ==
  /\ tasks[s] = EmptyBag
  /\ \A t \in Timers(s) : t.due > now

\* The steps of console s1 and its clock.
StageCycle ==
  \/ ObserveSession("s1")
  \/ Synced("s1") /\ Prompt("s1") /\ Tick
  \/ Synced("s1") /\ \E t \in Timers("s1") : FireAutoStart("s1", t)
  \/ Synced("s1") /\ \E t \in Timers("s1") : FireLock("s1", t)
  \/ Synced("s1") /\ \E t \in Timers("s1") : FireUnlock("s1", t)
  \/ Synced("s1") /\ \E t \in TasksOf("s1") : StartGetMode("s1", t)
  \/ Synced("s1") /\ \E t \in TasksOf("s1") : StartGetController("s1", t)
  \/ Synced("s1") /\ \E t \in TasksOf("s1") : StartRemoveVotes("s1", t)
  \/ Synced("s1") /\ \E t \in TasksOf("s1") : StartSetSession("s1", t)
  \/ Synced("s1") /\ \E t \in TasksOf("s1") : StartSchedule("s1", t)
  \/ Synced("s1") /\ \E t \in TasksOf("s1") : LockGetWorld("s1", t)
  \/ Synced("s1") /\ \E t \in TasksOf("s1") : LockSetWorld("s1", t)
  \/ Synced("s1") /\ \E t \in TasksOf("s1") : LockSetSession("s1", t)
  \/ Synced("s1") /\ \E t \in TasksOf("s1") : LockSchedule("s1", t)

AudienceSteps ==
  \/ AudObserveSession
  \/ \E type \in Types : voteNormal(type)
  \/ useAbility
  \/ \E c \in BagToSet(aud.calls) : SendVoteDone(c)

NextCycle == StageCycle \/ AudienceSteps

SpecCycle == InitCycle /\ [][NextCycle]_vars /\ WF_vars(StageCycle)

\* ------------------------------------------------- a show that is restarted
\* The auto-run show at its first waiting period, with one audience device
\* and an operator at console s1 who may restart the show.
InitRerun ==
  /\ CycleStart(0)
  /\ votes = [n \in LedgerIds |-> <<>>]
  /\ aud = Audience("dev-0002")

NextRerun ==
  \/ NextCycle
  \/ restart("s1")
  \/ Synced("s1") /\ \E t \in TasksOf("s1") : RestartSetWorld("s1", t)
  \/ Synced("s1") /\ \E t \in TasksOf("s1") : RestartSetDirector("s1", t)
  \/ Synced("s1") /\ \E t \in TasksOf("s1") : RestartSetSession("s1", t)

SpecRerun == InitRerun /\ [][NextRerun]_vars

\* The same show with an operator at console s1 who may reset the votes of
\* the round the console renders.
NextReset == NextCycle \/ resetCurrentVotes("s1")

SpecReset == InitCycle /\ [][NextReset]_vars

\* =============================================================== properties
RoundOf(r) == Fld(r, "roundId", 0)

StateOf(r) == Fld(r, "state", "undefined")

RECURSIVE SumPower(_)
SumPower(data) ==
  IF data = <<>> THEN 0 ELSE Head(data).power + SumPower(Tail(data))

\* Some instance's lock-timer callback writes World in this step.
LockWrites(s, t) == t \in TasksOf(s) /\ LockSetWorld(s, t)

\* C1: without a restart the stored session.roundId never decreases from one
\* store state to the next; only restart's Session write sets it back.
C1_RoundIdNeverDecreases ==
  [][\/ RoundOf(session') >= RoundOf(session)
     \/ \E s \in Stages : \E t \in TasksOf(s) : RestartSetSession(s, t)]_vars

\* C2: since the last restart reset World, the lock-timer callbacks have
\* written World at most once for every round id N.
C2_OneWorldWritePerRound == \A r \in Rounds : worldWrites[r] <= 1

\* C3: a lock-timer callback that read an empty ledger writes World with
\* lastDelta 0, the stability it read, all-zero lastScores and dominant stable.
C3_EmptyRoundWritesStable ==
  [][\A s \in Stages : \A t \in TasksOf(s) :
       (LockWrites(s, t) /\ t.data = <<>>) =>
          /\ world'.lastDelta = 0
          /\ world'.stability = t.current
          /\ world'.lastScores = [stable |-> 0, glitch |-> 0, override |-> 0]
          /\ world'.dominant = "stable"]_vars

\* The ledger of the worked example: four stable power-1 votes and two
\* override power-3 votes.
ExampleLedger ==
  <<StableVote, OverrideAbility, StableVote, StableVote, OverrideAbility,
    StableVote>>

\* C4: the World a lock-timer callback writes has lastScores summing to the
\* total power of the entries it read, lastDelta = stable - 2 glitch -
\* 3 override, and stability = the stability it read plus lastDelta, limited
\* to 0..100; stability 70 with the example ledger gives delta -14,
\* stability 56, dominant override.
C4_AggregatorWrite ==
  [][\A s \in Stages : \A t \in TasksOf(s) :
       LockWrites(s, t) =>
          LET w == world'
              sum == t.current + w.lastDelta
              ex == AggregatedWorld(1, ExampleLedger, 70)
          IN /\ w.lastScores.stable + w.lastScores.glitch
                  + w.lastScores.override = SumPower(t.data)
             /\ w.lastDelta = w.lastScores.stable - 2 * w.lastScores.glitch
                                - 3 * w.lastScores.override
             /\ w.stability = IF sum < 0 THEN 0 ELSE IF sum > 100 THEN 100 ELSE sum
             /\ w.roundId = t.round
             /\ ex.lastScores = [stable |-> 4, glitch |-> 0, override |-> 6]
             /\ ex.lastDelta = -14
             /\ ex.stability = 56
             /\ ex.dominant = "override"]_vars

\* Round 2 was aggregated from a ledger of three entries of all three types.
C4_Witness ==
  /\ worldWrites[2] = 1
  /\ RoundOf(world) = 2
  /\ world.lastScores = [stable |-> 1, glitch |-> 1, override |-> 3]
  /\ world.lastDelta = -10

\* C5: the dominant outcome of every aggregated World has the maximal score,
\* and among outcomes tied at the maximum glitch comes before override before
\* stable; {5,5,5} gives glitch, {5,0,5} override, {5,0,0} stable.
C5_DominantIsArgmax ==
  /\ "lastScores" \in DOMAIN world =>
       LET sc == world.lastScores
           d == world.dominant
       IN /\ d \in Types
          /\ \A ty \in Types : sc[ty] <= sc[d]
          /\ d = "override" => sc.glitch < sc.override
          /\ d = "stable" => sc.glitch < sc.stable /\ sc.override < sc.stable
  /\ dominantFromScores([stable |-> 5, glitch |-> 5, override |-> 5]) = "glitch"
  /\ dominantFromScores([stable |-> 5, glitch |-> 0, override |-> 5]) = "override"
  /\ dominantFromScores([stable |-> 5, glitch |-> 0, override |-> 0]) = "stable"

\* Round 2 was aggregated with stable and override tied above glitch.
C5_Witness ==
  /\ worldWrites[2] = 1
  /\ RoundOf(world) = 2
  /\ world.lastScores.stable = world.lastScores.override
  /\ world.lastScores.glitch < world.lastScores.override
  /\ world.dominant = "override"

\* C6: the stored World.stability is an integer in 0..100.
C6_StabilityInRange ==
  "stability" \in DOMAIN world => world.stability \in 0..100

\* Round 2 was aggregated with a delta that would have passed 100.
C6_Witness ==
  /\ worldWrites[2] = 1
  /\ RoundOf(world) = 2
  /\ world.lastDelta = 9
  /\ world.stability = 100

\* C7: session.state changes only waiting -> active by startRound, active ->
\* locked by the lock timer, locked -> waiting by the unlock timer, any ->
\* frozen by freeze/blackout, frozen -> waiting by resume, and any -> waiting
\* with roundId 0 by restart.
C7_OnlyLifecycleTransitions ==
  [][StateOf(session') # StateOf(session) =>
       \E s \in Stages :
         \/ /\ StateOf(session) = "waiting" /\ StateOf(session') = "active"
            /\ \E t \in TasksOf(s) : StartSetSession(s, t)
         \/ /\ StateOf(session) = "active" /\ StateOf(session') = "locked"
            /\ \E t \in TasksOf(s) : LockSetSession(s, t)
         \/ /\ StateOf(session) = "locked" /\ StateOf(session') = "waiting"
            /\ \E t \in Timers(s) : FireUnlock(s, t)
         \/ /\ StateOf(session') = "frozen"
            /\ \E t \in TasksOf(s) : FreezeUpdateSession(s, t)
         \/ /\ StateOf(session) = "frozen" /\ StateOf(session') = "waiting"
            /\ \E t \in TasksOf(s) : ResumeUpdateSession(s, t)
         \/ /\ StateOf(session') = "waiting" /\ RoundOf(session') = 0
            /\ \E t \in TasksOf(s) : RestartSetSession(s, t)]_vars

\* C8: from the completion of a freeze/blackout until resume or restart is
\* invoked, the session stays frozen under mode freeze/blackout, and
\* session.state, session.roundId and World do not change.
C8_FrozenUntilResume ==
  [][(halted /\ halted') =>
       /\ StateOf(session') = "frozen"
       /\ Fld(director', "mode", "normal") \in {"freeze", "blackout"}
       /\ RoundOf(session') = RoundOf(session)
       /\ world' = world]_vars

\* C9: after a freeze/blackout, invoked while round N was active with its
\* lock timer pending, cancelled that timer, no lock-timer callback writes
\* World for round N.
C9_InterruptedRoundNeverAggregated ==
  [][\A s \in Stages : \A t \in TasksOf(s) :
       LockWrites(s, t) => t.round \notin interrupted]_vars

\* C10: every pending timer is reachable through timersRef (cancellable),
\* and no timer that survived a clearTimers() of its instance fires.
C10_TimersCancellable ==
  [][/\ \A s \in Stages : \A t \in BagToSet(timers'[s]) : t.held
     /\ \A s \in Stages : \A t \in Timers(s) :
          t.stale => ~(FireAutoStart(s, t) \/ FireLock(s, t) \/ FireUnlock(s, t))
    ]_vars

\* The call t of instance s takes its next step.
CallSteps(s, t) == Copies(tasks'[s], t) < Copies(tasks[s], t)

\* The call t of instance s ends in this step and the step changes nothing
\* else in the store or among the timers.
EndsAsNoOp(s, t) ==
  /\ tasks' = [tasks EXCEPT ![s] = @ (-) SetToBag({t})]
  /\ UNCHANGED <<session, votes, world, director, timers>>

Quiet == \A s \in Stages : tasks[s] = EmptyBag /\ timers[s] = EmptyBag

\* C11: a startRound call that finds the stored director.mode freeze or
\* blackout ends there: Session, Vote Ledger and World stay as they are and
\* no lock timer is scheduled; the same for each of two calls in a row.
C11_StartRoundRejectedByMode ==
  [][\A s \in Stages : \A t \in TasksOf(s) :
       (/\ t.op = "startRound"
        /\ t.pc = "srGetMode"
        /\ CallSteps(s, t)
        /\ Fld(director, "mode", "normal") \in {"freeze", "blackout"})
       => EndsAsNoOp(s, t)]_vars

\* Two Manual Start clicks were made on a frozen show and both calls have
\* ended: the session is still the frozen one and no timer is pending.
C11_Witness ==
  /\ ops = 2
  /\ Quiet
  /\ director.mode \in {"freeze", "blackout"}
  /\ session = [SessionDefault EXCEPT !.state = "frozen", !.controllerId = "s1"]
  /\ world = WorldDefault
  /\ \A n \in LedgerIds : votes[n] = <<>>

C13_RestartResetsEverything ==
  [][\A s \in Stages : \A t \in TasksOf(s) :
       (/\ t.op = "restart"
        /\ t.pc = "rtSetSession"
        /\ CallSteps(s, t)
        /\ t.str = "alone"
        /\ t.round = ops
        /\ t.flag = (t.current = 1)
        /\ \A u \in TasksOf(s) : u = t \/ u.op = "lock")
       => /\ StateOf(session') = "waiting"
          /\ RoundOf(session') = 0
          /\ Fld(session', "controllerId", "") = s
          /\ Fld(world', "stability", -1) = 70
          /\ Fld(world', "dominant", "") = "stable"
          /\ \A n \in LedgerIds : votes'[n] = <<>>
          /\ Fld(director', "mode", "") = "normal"
          /\ Fld(director', "autoRun", FALSE) = (t.current = 1)]_vars

\* The positions of the device's entries of a kind in the ledger of round n.
EntriesOf(n, kind) ==
  {i \in DOMAIN votes[n] : /\ votes[n][i].deviceId = aud.deviceId
                           /\ votes[n][i].kind = kind}

\* C14: for every round, the Vote Ledger holds at most one kind=normal
\* entry and at most one kind=ability entry of the device, under any
\* interleaving of the device's sendVote calls, two calls issued before the
\* first one's marker update included.
C14_OneVotePerKindAndRound ==
  \A n \in LedgerIds : \A kind \in {"normal", "ability"} :
    Cardinality(EntriesOf(n, kind)) <= 1

ViewRound == Fld(aud.session, "roundId", 0)

\* C15: once the device's normal vote of round N is recorded (its marker is
\* N), a further normal vote in round N writes nothing, while its ability
\* vote in round N (round active in its view, cooldown elapsed, ability
\* marker not N) is appended to votes/N; and the same with the two kinds
\* exchanged.
C15_LimitsIndependent ==
  [][/\ (aud.normalUsedRound = ViewRound /\ \E type \in Types : voteNormal(type))
          => votes' = votes
     /\ (aud.abilityUsedRound = ViewRound /\ useAbility)
          => votes' = votes
     /\ (/\ aud.normalUsedRound = ViewRound
         /\ aud.abilityUsedRound # ViewRound
         /\ isActive /\ cooldownLeft = 0
         /\ useAbility)
          => votes' = [votes EXCEPT ![ViewRound] =
                         Append(@, VoteEntry(abilityType(aud.role), 3,
                                             "ability"))]
     /\ \A type \in Types :
          (/\ aud.abilityUsedRound = ViewRound
           /\ aud.normalUsedRound # ViewRound
           /\ isActive /\ cooldownLeft = 0
           /\ voteNormal(type))
          => votes' = [votes EXCEPT ![ViewRound] =
                         Append(@, VoteEntry(type, 1, "normal"))]]_vars

\* The normal vote of round 2 is recorded, the cooldown has passed, and the
\* ability vote of round 2 has been pushed behind it and awaits its ack.
C15_Witness ==
  /\ aud.normalUsedRound = 2
  /\ aud.abilityUsedRound = 1
  /\ aud.lastActionTs + COOLDOWN_MS \div 1000 <= now
  /\ aud.calls = SetToBag({[kind |-> "ability", round |-> 2]})
  /\ aud.outcome = "sent"
  /\ Len(votes[2]) = 2
  /\ votes[2][1].kind = "normal"
  /\ votes[2][2].kind = "ability"

\* The conditions for a vote of this kind, read off the device's view.
Acceptable(kind) ==
  /\ aud.director.mode = "normal"
  /\ Fld(aud.session, "state", "") = "active"
  /\ ViewRound > 0
  /\ Fld(aud.session, "endsAt", 0) > now
  /\ (IF kind = "normal" THEN aud.normalUsedRound ELSE aud.abilityUsedRound)
       # ViewRound
  /\ Ms(now) - Ms(aud.lastActionTs) >= COOLDOWN_MS

Untouched ==
  /\ votes' = votes
  /\ aud'.normalUsedRound = aud.normalUsedRound
  /\ aud'.abilityUsedRound = aud.abilityUsedRound
  /\ aud'.lastActionTs = aud.lastActionTs

\* C16: the Vote Ledger grows only by one entry appended to votes/N, where
\* in the device's view at the call the mode is normal, the state active,
\* roundId = N > 0, endsAt in the future, the marker of the entry's kind not
\* N and the cooldown elapsed; a sendVote call for which one of these fails
\* leaves the ledger, both markers and the last-vote timestamp unchanged;
\* votes/0 stays empty.
C16_SendVoteGuards ==
  [][/\ votes' # votes
          => /\ Len(votes'[ViewRound]) = Len(votes[ViewRound]) + 1
             /\ votes' = [votes EXCEPT ![ViewRound] =
                            Append(@, votes'[ViewRound][Len(@) + 1])]
             /\ Acceptable(votes'[ViewRound][Len(votes[ViewRound]) + 1].kind)
     /\ ((\E type \in Types : voteNormal(type)) /\ ~Acceptable("normal"))
          => Untouched
     /\ (useAbility /\ ~Acceptable("ability")) => Untouched
     /\ votes'[0] = <<>>]_vars

\* A call was rejected and nothing written while the device saw an active
\* round with time left and no cooldown, but a frozen show.
C16_Witness ==
  /\ aud.outcome = "rejected"
  /\ aud.director.mode = "freeze"
  /\ Fld(aud.session, "state", "") = "active"
  /\ ViewRound > 0
  /\ secondsLeft > 0
  /\ cooldownLeft = 0
  /\ Sent = 0

\* C17: every entry of the Vote Ledger written by an audience device is
\* kind=normal with power 1 and a type among stable, glitch, override, or
\* kind=ability with power 3 and the type of the entry's role (Observer
\* stable, Glitch glitch, Hacker override).
C17_EntryShapes ==
  \A n \in LedgerIds : \A i \in DOMAIN votes[n] :
    LET e == votes[n][i]
    IN \/ e.kind = "normal" /\ e.power = 1 /\ e.type \in Types
       \/ /\ e.kind = "ability"
          /\ e.power = 3
          /\ \/ e.role = "Observer" /\ e.type = "stable"
             \/ e.role = "Glitch" /\ e.type = "glitch"
             \/ e.role = "Hacker" /\ e.type = "override"

\* A Glitch device has pushed its ability vote and a normal vote of another
\* type in the same round.
C17_Witness ==
  /\ aud.role = "Glitch"
  /\ \E n \in Rounds : \E i, j \in DOMAIN votes[n] :
       /\ votes[n][i].kind = "ability"
       /\ votes[n][j].kind = "normal"
       /\ votes[n][j].type = "override"

\* The store shows auto-run on and a countdown under way.
CountingDown ==
  /\ Fld(director, "autoRun", FALSE)
  /\ StateOf(session) = "waiting"
  /\ Fld(session, "nextStartsAt", 0) > now

\* C18: while the session is waiting with a future nextStartsAt and autoRun
\* is already true, no step of a setAutoRun(true) call (its invocation, its
\* director update, its session update) changes session.nextStartsAt or any
\* pending timer: the auto-start fires at the instant it was armed for.
C18_AutoRunOnIdempotent ==
  [][\A s \in Stages :
       /\ (CountingDown /\ setAutoRun(s))
            => UNCHANGED <<session, director, timers>>
       /\ \A t \in TasksOf(s) :
            (/\ CountingDown
             /\ t.op = "setAutoRun"
             /\ t.flag
             /\ CallSteps(s, t))
            => /\ Fld(session', "nextStartsAt", 0)
                    = Fld(session, "nextStartsAt", 0)
               /\ StateOf(session') = "waiting"
               /\ Fld(director', "autoRun", FALSE)
               /\ timers' = timers]_vars

\* Auto-run was switched on twice in a row: one call is complete, the
\* countdown to instant 8 is armed, and the other call has updated the
\* director again and is about to update the session.
C18_Witness ==
  /\ ops = 2
  /\ now < WAIT_SECONDS
  /\ CountingDown
  /\ Fld(session, "nextStartsAt", 0) = WAIT_SECONDS
  /\ tasks["s1"] = SetToBag({Task("setAutoRun", "arUpdateSession", 0, "",
                                  TRUE)})
  /\ timers["s1"] = SetToBag({Timer("autoStart", 0, WAIT_SECONDS)})

\* The scheduler effect's conditions as console s has observed them.
SeesAutoRunnable(s) ==
  /\ vdirector[s].autoRun
  /\ vdirector[s].mode = "normal"
  /\ Fld(vsession[s], "state", "undefined") = "waiting"
  /\ iAmController(s, vsession[s])

\* C19: when a startRound call made by the auto-start timer writes the
\* Session, the store holds director.autoRun true, director.mode normal,
\* session.state waiting and a controllerId that is empty or the writing
\* instance; and an instance that has observed one of these to be false
\* holds no pending auto-start timer.
C19_AutoStartOnlyWhenEligible ==
  [][/\ \A s \in Stages : \A t \in TasksOf(s) :
          (/\ t.op = "startRound"
           /\ t.str = "auto"
           /\ t.pc = "srSetSession"
           /\ CallSteps(s, t))
          => /\ Fld(director, "autoRun", FALSE)
             /\ Fld(director, "mode", "normal") = "normal"
             /\ StateOf(session) = "waiting"
             /\ Fld(session, "controllerId", "") \in {"", s}
     /\ \A s \in Stages :
          ~SeesAutoRunnable(s)'
            => \A t \in BagToSet(timers'[s]) : t.kind # "autoStart"]_vars

\* The pending auto-start timers of console s.
AutoTimers(s) == {t \in BagToSet(timers[s]) : t.kind = "autoStart"}

\* C20: whatever changes the scheduler effect's dependencies go through,
\* console s never has more than one pending auto-start timer, and when that
\* timer fires (one auto startRound invocation) none is left pending.
C20_OneAutoStartTimer ==
  [][\A s \in Stages :
       /\ Cardinality(AutoTimers(s)') <= 1
       /\ \A t \in AutoTimers(s)' : Copies(timers'[s], t) = 1
       /\ \A t \in Timers(s) : FireAutoStart(s, t) => AutoTimers(s)' = {}]_vars

\* In the waiting period after round 1 the effect has armed the auto-start
\* of the next round, the only auto-start timer pending.
C20_Witness ==
  /\ StateOf(session) = "waiting"
  /\ RoundOf(session) = 1
  /\ AutoTimers("s1")
       = {Timer("autoStart", 1, Fld(session, "nextStartsAt", 0))}
  /\ Fld(session, "nextStartsAt", 0) > now

\* C21: in every store state, session.endsAt is 0 whenever session.state is
\* waiting or frozen.
C21_EndsAtOnlyWhileRoundRuns ==
  (Exists(session) /\ StateOf(session) \in {"waiting", "frozen"})
    => Fld(session, "endsAt", 0) = 0

\* C22: in every store state, session.nextStartsAt is 0 unless session.state
\* is waiting and director.autoRun is true.
C22_NextStartsAtOnlyWhileCounting ==
  (Exists(session) /\ Fld(session, "nextStartsAt", 0) # 0)
    => StateOf(session) = "waiting" /\ Fld(director, "autoRun", FALSE)

Boots(s) == ~mounted[s] /\ mounted'[s]

\* C23: a console that boots and reads an empty session.controllerId writes
\* its own id into that field (and nothing else of the Session); one that
\* reads a non-empty controllerId starts no claim; the boot itself leaves
\* the Session unchanged; and a console acts as controller (its Manual Start
\* is available) only while the controllerId it observes is its own id or
\* empty.
C23_ControllerClaim ==
  [][\A s \in Stages :
       /\ Boots(s)
            => /\ session' = session
               /\ IF Fld(session, "controllerId", "") = ""
                  THEN tasks' = [tasks EXCEPT ![s] =
                         @ (+) SetToBag({Task("claim", "ccUpdate", 0, "",
                                              FALSE)})]
                  ELSE tasks' = tasks
       /\ \A t \in TasksOf(s) :
            (t.op = "claim" /\ CallSteps(s, t))
            => session' = Merge(session, [controllerId |-> s])
       /\ iAmController(s, vsession[s])
            <=> Fld(vsession[s], "controllerId", "") \in {"", s}
       /\ StartRoundManual(s)
            => Fld(vsession[s], "controllerId", "") \in {"", s}]_vars

\* Console s1 booted on an empty store and claimed; console s2 booted after
\* that, read "s1" and claimed nothing.
C23_Witness ==
  /\ mounted = [s \in Stages |-> TRUE]
  /\ session = Merge(Absent, [controllerId |-> "s1"])
  /\ Quiet
  /\ ops = 0

ClaimsInFlight ==
  {s \in Stages : \E t \in TasksOf(s) : t.op = "claim"}

\* Every console is up, every claim has been written, and every console
\* has observed the stored controllerId.
Settled ==
  /\ \A s \in Stages : mounted[s]
  /\ ClaimsInFlight = {}
  /\ \A s \in Stages :
       Fld(vsession[s], "controllerId", "") = Fld(session, "controllerId", "")

\* C24: each claim write stores the writer's id, so when the last claim in
\* flight is applied the stored controllerId is that of the last writer;
\* once all consoles are up, all claims are applied and all have observed
\* the stored id, exactly one console considers itself controller, and a
\* startRound passes its controller check only on that console.
C24_LastClaimWins ==
  [][/\ \A s \in Stages : \A t \in TasksOf(s) :
          (t.op = "claim" /\ CallSteps(s, t))
          => Fld(session', "controllerId", "") = s
     /\ Settled
          => /\ Fld(session, "controllerId", "") \in Stages
             /\ {s \in Stages : iAmController(s, vsession[s])}
                  = {Fld(session, "controllerId", "")}
             /\ \A s \in Stages : \A t \in TasksOf(s) :
                  (/\ t.op = "startRound"
                   /\ t.pc = "srGetCtrl"
                   /\ CallSteps(s, t)
                   /\ tasks'[s] # tasks[s] (-) SetToBag({t}))
                  => s = Fld(session, "controllerId", "")]_vars

\* Both consoles booted on an empty store and both read an empty
\* controllerId: the claim of s1 is written, that of s2 is about to
\* overwrite it.
C24_Witness ==
  /\ mounted = [s \in Stages |-> TRUE]
  /\ session = Merge(Absent, [controllerId |-> "s1"])
  /\ ClaimsInFlight = {"s2"}
  /\ tasks["s1"] = EmptyBag

\* C25: when the claim of the first console to boot is written to a store
\* without a Session record, the stored Session holds the defaults state
\* waiting, roundId 0, endsAt 0, nextStartsAt 0, with controllerId the
\* claiming console.
C25_BootCreatesDefaultSession ==
  [][\A s \in Stages : \A t \in TasksOf(s) :
       (t.op = "claim" /\ CallSteps(s, t) /\ ~Exists(session))
       => session' = [SessionDefault EXCEPT !.controllerId = s]]_vars

C27_StartRoundSequence ==
  [][\A s \in Stages : \A t \in TasksOf(s) :
       (t.op = "startRound" /\ CallSteps(s, t))
       => /\ t.pc = "srRemove"
               => /\ votes' = [votes EXCEPT ![t.round + 1] = <<>>]
                  /\ session' = session
                  /\ tasks' = [tasks EXCEPT ![s] =
                       (@ (-) SetToBag({t}))
                       (+) SetToBag({[t EXCEPT !.pc = "srSetSession"]})]
          /\ t.pc = "srSetSession"
               => /\ session' = [state |-> "active",
                                 roundId |-> t.round + 1,
                                 endsAt |-> now + ACTIVE_SECONDS,
                                 nextStartsAt |-> 0,
                                 controllerId |-> s,
                                 startedBy |-> t.str]
                  /\ \A i \in DOMAIN votes'[t.round + 1] :
                       votes'[t.round + 1][i] # OrphanVote
                  /\ tasks' = [tasks EXCEPT ![s] =
                       (@ (-) SetToBag({t}))
                       (+) SetToBag({[t EXCEPT !.pc = "srSchedule"]})]
          /\ t.pc = "srSchedule"
               => /\ {x \in BagToSet(timers'[s]) : x.kind = "lock" /\ x.held}
                       = {Timer("lock", t.round + 1, now + ACTIVE_SECONDS)}
                  /\ BagCardinality(timers'[s])
                       = BagCardinality(timers[s]) + 1
                  /\ UNCHANGED <<session, votes>>]_vars

\* Round 1 was started over a ledger that held orphaned entries under ids 1
\* and 2: the entry under id 1 is gone, the one under id 2 is still there,
\* round 1 is active and its lock timer is armed.
C27_Witness ==
  /\ StateOf(session) = "active"
  /\ RoundOf(session) = 1
  /\ session.startedBy = "auto"
  /\ votes[1] = <<>>
  /\ votes[2] = <<OrphanVote>>
  /\ tasks["s1"] = EmptyBag
  /\ timers["s1"] = SetToBag({Timer("lock", 1, WAIT_SECONDS + ACTIVE_SECONDS)})

\* C28: the callback of the lock timer of round N writes World before it
\* writes Session: when it writes Session {locked, roundId N, endsAt now +
\* LOCKED_SECONDS}, World carries roundId N with the lastScores and lastDelta
\* of the ledger it tallied, and it then leaves exactly one unlock timer
\* scheduled.
C28_WorldBeforeLocked ==
  [][\A s \in Stages : \A t \in TasksOf(s) :
       (t.op = "lock" /\ CallSteps(s, t))
       => /\ t.pc = "lkSetWorld"
               => /\ world' = AggregatedWorld(t.round, t.data, t.current)
                  /\ session' = session
          /\ t.pc = "lkSetSession"
               => /\ Fld(world, "roundId", 0) = t.round
                  /\ Fld(world, "lastScores", Tally(<<>>)) = Tally(t.data)
                  /\ Fld(world, "lastDelta", 0) = calcDelta(Tally(t.data))
                  /\ world' = world
                  /\ session' = [state |-> "locked", roundId |-> t.round,
                                 endsAt |-> now + LOCKED_SECONDS,
                                 nextStartsAt |-> 0, controllerId |-> s]
          /\ t.pc = "lkSchedule"
               => /\ {x \in BagToSet(timers'[s]) : x.kind = "unlock"}
                       = {Timer("unlock", t.round, now + LOCKED_SECONDS)}
                  /\ Copies(timers'[s],
                            Timer("unlock", t.round, now + LOCKED_SECONDS)) = 1]_vars

\* The pending timer t of instance s fires in this step and its callback is
\* of the given kind (no render, no handler call and no clock step removes
\* one timer and leaves the views and the suspended handlers alone).
TimerFires(s, t, kind) ==
  /\ Due(s, t, kind)
  /\ Fired(s, t)
  /\ UNCHANGED <<tasks, vsession, vdirector, mounted, now>>

\* C29: when the unlock timer of round N fires, Session becomes {state
\* waiting, roundId N, endsAt 0, nextStartsAt 0} and World, Director and the
\* whole Vote Ledger stay as they are.
C29_UnlockWritesWaiting ==
  [][\A s \in Stages : \A t \in Timers(s) :
       TimerFires(s, t, "unlock")
       => /\ StateOf(session') = "waiting"
          /\ RoundOf(session') = t.round
          /\ Fld(session', "endsAt", -1) = 0
          /\ Fld(session', "nextStartsAt", -1) = 0
          /\ UNCHANGED <<world, director, votes>>]_vars

\* Round 1 was played and its unlock timer has fired at 26: Session is
\* waiting with round id 1 and World still carries the result of round 1.
C29_Witness ==
  /\ now = ACTIVE_SECONDS + LOCKED_SECONDS
  /\ session = [state |-> "waiting", roundId |-> 1, endsAt |-> 0,
                nextStartsAt |-> 0, controllerId |-> "s1"]
  /\ Fld(world, "roundId", 0) = 1
  /\ timers["s1"] = EmptyBag
  /\ tasks["s1"] = EmptyBag
  /\ worldWrites[1] = 1

\* C30: freeze and blackout cancel every timer of the invoking instance,
\* write their mode to Director without changing the stored autoRun, and
\* write Session state frozen, endsAt 0, nextStartsAt 0 without changing the
\* stored roundId; World and the Vote Ledger stay as they are.
C30_HaltFrame ==
  [][\A s \in Stages : \A t \in TasksOf(s) :
       (t.op = "freeze" /\ CallSteps(s, t))
       => /\ t.pc = "fzSetDirector"
               => /\ timers'[s] = EmptyBag
                  /\ Fld(director', "mode", "normal") = t.str
                  /\ Fld(director', "autoRun", FALSE)
                       = Fld(director, "autoRun", FALSE)
                  /\ UNCHANGED <<session, world, votes>>
          /\ t.pc = "fzUpdateSession"
               => /\ StateOf(session') = "frozen"
                  /\ Fld(session', "endsAt", -1) = 0
                  /\ Fld(session', "nextStartsAt", -1) = 0
                  /\ RoundOf(session') = RoundOf(session)
                  /\ UNCHANGED <<director, world, votes>>]_vars

\* C31: resume writes mode normal to Director without changing the stored
\* autoRun, and writes Session state waiting, endsAt 0, nextStartsAt 0
\* without changing the stored roundId; World and the Vote Ledger stay as
\* they are, whatever Director the resuming console last rendered.
C31_ResumeFrame ==
  [][\A s \in Stages : \A t \in TasksOf(s) :
       (t.op = "resume" /\ CallSteps(s, t))
       => /\ t.pc = "rsSetDirector"
               => /\ Fld(director', "mode", "undefined") = "normal"
                  /\ Fld(director', "autoRun", FALSE)
                       = Fld(director, "autoRun", FALSE)
                  /\ UNCHANGED <<session, world, votes>>
          /\ t.pc = "rsUpdateSession"
               => /\ StateOf(session') = "waiting"
                  /\ Fld(session', "endsAt", -1) = 0
                  /\ Fld(session', "nextStartsAt", -1) = 0
                  /\ RoundOf(session') = RoundOf(session)
                  /\ UNCHANGED <<director, world, votes>>]_vars

\* The operator of console s presses "reset current votes" in this step: the
\* only operator action that suspends no handler.
ResetPressed(s) == mounted[s] /\ ops' = ops + 1 /\ tasks' = tasks

\* C32: resetCurrentVotes empties the ledger of the round id the console
\* renders and no other ledger, and leaves Session, World, Director and the
\* pending timers as they are; when the console renders round id 0 the whole
\* Vote Ledger stays as it is.
C32_ResetFrame ==
  [][\A s \in Stages :
       ResetPressed(s)
       => LET r == Fld(vsession[s], "roundId", 0)
          IN /\ votes' = [n \in LedgerIds |->
                            IF n = r /\ r # 0 THEN <<>> ELSE votes[n]]
             /\ UNCHANGED <<session, world, director, timers>>]_vars

\* Round 1 is active and the console, rendering round 1, has reset its votes
\* once: the ledger of round 1 is empty although the device has sent a vote
\* in this round, and the entry under id 2 is still there.
C32_Witness ==
  /\ StateOf(session) = "active"
  /\ RoundOf(vsession["s1"]) = 1
  /\ ops = 1
  /\ votes[1] = <<>>
  /\ votes[2] = <<OrphanVote>>
  /\ aud.normalUsedRound = 1

\* Console s renders new values in this step and a dependency of the
\* scheduler effect has changed.
EffectRuns(s) ==
  /\ mounted[s]
  /\ Deps(vsession'[s], vdirector'[s]) # Deps(vsession[s], vdirector[s])

\* The held auto-start timers of console s after the step.
ArmedAfter(s) ==
  {t \in BagToSet(timers'[s]) : t.kind = "autoStart" /\ t.held}

\* C33: when the scheduler effect runs with autoRun on, mode normal, the
\* console controller and state waiting, then with a rendered nextStartsAt
\* that is 0 or not later than now it writes nextStartsAt = now +
\* WAIT_SECONDS and endsAt = 0 to Session and arms the auto-start timer for
\* that instant, and with a rendered nextStartsAt in the future it writes
\* nothing to Session and arms the auto-start timer for the rendered instant.
C33_SchedulerCountdown ==
  [][\A s \in Stages :
       (EffectRuns(s) /\ SeesAutoRunnable(s)')
       => LET seen == Fld(vsession'[s], "nextStartsAt", 0)
              rid == Fld(vsession'[s], "roundId", 0)
          IN IF seen = 0 \/ seen <= now
             THEN /\ session' = Merge(session,
                                      [nextStartsAt |-> now + WAIT_SECONDS,
                                       endsAt |-> 0])
                  /\ ArmedAfter(s)
                       = {Timer("autoStart", rid, now + WAIT_SECONDS)}
             ELSE /\ session' = session
                  /\ ArmedAfter(s) = {Timer("autoStart", rid, seen)}]_vars

\* The effect has just run on a render whose nextStartsAt lay in the past: the
\* store carries a fresh countdown that the console has not rendered yet, and
\* the auto-start timer is armed for its end.
C33_Witness ==
  /\ Fld(vsession["s1"], "nextStartsAt", 0) > 0
  /\ Fld(vsession["s1"], "nextStartsAt", 0) <= now
  /\ SeesAutoRunnable("s1")
  /\ Fld(session, "nextStartsAt", 0) = now + WAIT_SECONDS
  /\ Fld(session, "endsAt", -1) = 0
  /\ timers["s1"] = SetToBag({Timer("autoStart", RoundOf(vsession["s1"]),
                                    now + WAIT_SECONDS)})

\* C34: the callbacks of the lock and unlock timers of a console never look
\* at the stored controllerId or mode: once its lock timer has fired the
\* callback writes World and then Session {locked, controllerId self}, and
\* its unlock timer writes Session {waiting, controllerId self}, also when
\* another console holds controllerId.
C34_TimersIgnoreController ==
  [][\A s \in Stages :
       /\ \A t \in TasksOf(s) :
            (t.op = "lock" /\ CallSteps(s, t))
            => /\ t.pc = "lkSetWorld"
                    => world' = AggregatedWorld(t.round, t.data, t.current)
               /\ t.pc = "lkSetSession"
                    => /\ StateOf(session') = "locked"
                       /\ RoundOf(session') = t.round
                       /\ Fld(session', "controllerId", "") = s
       /\ \A t \in Timers(s) :
            TimerFires(s, t, "unlock")
            => /\ StateOf(session') = "waiting"
               /\ Fld(session', "controllerId", "") = s]_vars

\* Console s2 holds controllerId while the callback of console s1's lock
\* timer for round 1 has written World and is about to write Session.
C34_Witness ==
  /\ Fld(session, "controllerId", "") = "s2"
  /\ StateOf(session) = "active"
  /\ Fld(world, "roundId", 0) = 1
  /\ \E t \in TasksOf("s1") : t.op = "lock" /\ t.pc = "lkSetSession"

\* The orders in which a snapshot of n entries can be enumerated.
Orders(n) ==
  {p \in [1..n -> 1..n] : \A i, j \in 1..n : p[i] = p[j] => i = j}

Reordered(data, p) == [i \in 1..Len(data) |-> data[p[i]]]

\* C35: the World record the lock-timer callback writes is the same for
\* every order in which the entries of the ledger snapshot are enumerated.
C35_OrderIndependent ==
  [][\A s \in Stages : \A t \in TasksOf(s) :
       (t.op = "lock" /\ t.pc = "lkSetWorld" /\ CallSteps(s, t))
       => \A p \in Orders(Len(t.data)) :
            world' = AggregatedWorld(t.round, Reordered(t.data, p), t.current)]_vars

\* Round 2 was aggregated from a ledger of three entries of three different
\* types.
C35_Witness ==
  /\ worldWrites[2] = 1
  /\ Len(votes[2]) = 3
  /\ \A ty \in Types : \E i \in 1..3 : votes[2][i].type = ty
  /\ Fld(world, "roundId", 0) = 2
  /\ \A ty \in Types : Fld(world, "lastScores", Tally(<<>>))[ty] >= 1

\* C36: every Session write of startRound, of the lock-timer callback, of the
\* unlock timer and of freeze, blackout, resume and restart stores the acting
\* console's id as controllerId, whichever console held it before.
C36_WritersBecomeController ==
  [][\A s \in Stages :
       /\ \A t \in TasksOf(s) :
            (/\ CallSteps(s, t)
             /\ t.pc \in {"srSetSession", "lkSetSession", "fzUpdateSession",
                          "rsUpdateSession", "rtSetSession"})
            => Fld(session', "controllerId", "") = s
       /\ \A t \in Timers(s) :
            TimerFires(s, t, "unlock")
            => Fld(session', "controllerId", "") = s]_vars

\* Console s2 has frozen the show that console s1 controlled and is now the
\* stored controller, while console s1 still holds the lock timer of round 1.
C36_Witness ==
  /\ Fld(session, "controllerId", "") = "s2"
  /\ StateOf(session) = "frozen"
  /\ director.mode = "blackout"
  /\ tasks["s2"] = EmptyBag
  /\ timers["s1"] = SetToBag({Timer("lock", 1, ACTIVE_SECONDS)})

\* C37: whenever the stored session.state is active or locked, the stored
\* session.roundId is at least 1.
C37_RunningRoundIsNumbered ==
  StateOf(session) \in {"active", "locked"} => RoundOf(session) >= 1

\* A restart has reset the store to round 0 while the lock callback of round
\* 1 was running, and the callback has then written Session: locked, round 1.
C37_Witness ==
  /\ StateOf(session) = "locked"
  /\ RoundOf(session) = 1
  /\ Fld(world, "roundId", -1) = 0
  /\ ops = MaxOps
  /\ \A s \in Stages : ~ \E t \in TasksOf(s) : t.op = "restart"

\* The pending lock timers of round n, on any console.
LockTimers(n) ==
  UNION {{t \in Timers(s) : t.kind = "lock" /\ t.round = n} : s \in Stages}

\* The running lock-timer callbacks of round n, on any console.
LockCalls(n) ==
  UNION {{t \in TasksOf(s) : t.op = "lock" /\ t.round = n} : s \in Stages}

\* C38: every run of the scheduler effect (a change of the rendered autoRun,
\* mode, state, nextStartsAt or controllerId) leaves none of the three timer
\* handles of the console pending except the auto-start it may arm itself;
\* so when autoRun is toggled during an active round whose lock timer the
\* controller holds, that timer is gone, and World is written for a round
\* only by a lock callback of that round, which only a lock timer starts.
C38_EffectCancelsAllTimers ==
  [][
      /\ \A s \in Stages :
          EffectRuns(s)
          => /\ \A t \in BagToSet(timers'[s]) :
                  t.held => /\ t.kind = "autoStart"
                            /\ t.due >= now
                            /\ SeesAutoRunnable(s)'
             /\ \A n \in Rounds :
                  (/\ LockCalls(n) = {}
                   /\ \A t \in LockTimers(n) : t \in Timers(s) /\ t.held)
                  => LockTimers(n)' = {} /\ LockCalls(n)' = {}
      /\ \A m \in Rounds :
           worldWrites'[m] > worldWrites[m]
           => \E t \in LockCalls(m) : t.pc = "lkSetWorld"
      /\ \A m \in Rounds : \A s \in Stages :
           (\E t \in LockCalls(m)' :
              Copies(tasks'[s], t) > Copies(tasks[s], t) /\ t.pc = "lkGetWorld")
           => \E t \in LockTimers(m) :
                Copies(timers'[s], t) < Copies(timers[s], t)
    ]_vars

\* The scheduler effect ran while round 1 was active and the controller held
\* its lock timer (no freeze or blackout was involved): the timer is gone
\* without having run, round 1 was not aggregated, and with auto-run on the
\* scheduler has started round 2.
C38_Witness ==
  /\ StateOf(session) = "active"
  /\ RoundOf(session) = 2
  /\ Fld(session, "startedBy", "") = "auto"
  /\ Fld(director, "autoRun", FALSE)
  /\ worldWrites[1] = 0
  /\ Fld(world, "roundId", 0) = 0
  /\ LockTimers(1) = {} /\ LockCalls(1) = {}
  /\ timers["s1"] = SetToBag({Timer("lock", 2, Fld(session, "endsAt", 0))})
  /\ tasks["s1"] = EmptyBag
  /\ interrupted = {}
  /\ ~halted

\* C39: a used-round marker of the device changes only when one of its own
\* sendVote calls completes, to the round id of that call: restart leaves it
\* alone.  A vote of a kind whose marker equals the round id the device sees
\* is rejected, also in round k of a restarted show whose votes/k is empty.
C39_MarkersSurviveRestart ==
  [][
      /\ aud'.normalUsedRound # aud.normalUsedRound
           => \E c \in BagToSet(aud.calls) :
                c.kind = "normal" /\ aud'.normalUsedRound = c.round
      /\ aud'.abilityUsedRound # aud.abilityUsedRound
           => \E c \in BagToSet(aud.calls) :
                c.kind = "ability" /\ aud'.abilityUsedRound = c.round
      /\ (aud.normalUsedRound = ViewRound /\ \E type \in Types : voteNormal(type))
           => votes' = votes /\ aud'.outcome = "rejected"
      /\ (aud.abilityUsedRound = ViewRound /\ useAbility)
           => votes' = votes /\ aud'.outcome = "rejected"
    ]_vars

\* The device used both votes in round 1, the show was restarted and its new
\* round 1 is active with an empty ledger, normal mode and no cooldown: the
\* device's latest call was rejected.
C39_Witness ==
  /\ ops >= 1
  /\ StateOf(session) = "active"
  /\ RoundOf(session) = 1
  /\ aud.session.state = "active"
  /\ ViewRound = 1
  /\ isActive
  /\ cooldownLeft = 0
  /\ aud.normalUsedRound = 1
  /\ aud.abilityUsedRound = 1
  /\ aud.calls = EmptyBag
  /\ votes[1] = <<>>
  /\ aud.outcome = "rejected"

\* C40: ensureWorldInit writes World = {stability 70, dominant stable,
\* roundId 0} only when no World stability is stored and Director = {mode
\* normal, autoRun false} only when no Director record is stored; it leaves
\* a stored World and a stored Director as they are, and it never changes
\* Session or the Vote Ledger.
C40_EnsureWorldInitFrame ==
  [][\A s \in Stages : \A t \in TasksOf(s) :
       (CallSteps(s, t)
        /\ t.pc \in {"ewSetWorld", "ewGetDirector", "ewSetDirector"})
       => /\ UNCHANGED <<session, votes>>
          /\ IF t.pc = "ewSetWorld" /\ "stability" \notin DOMAIN world
             THEN world' = [stability |-> 70, dominant |-> "stable",
                            roundId |-> 0]
             ELSE world' = world
          /\ IF t.pc = "ewSetDirector" /\ ~Exists(director)
             THEN director' = [mode |-> "normal", autoRun |-> FALSE]
             ELSE director' = director]_vars

====
